---- MODULE Spec2Model ----
(***************************************************************************)
(* The call multiplexor of go-thor/thor: DefaultClient in its two drafts   *)
(* (package thor, and package pkg), the stream transport's Send as the     *)
(* client sees it, the server's frame handler as the producer of response  *)
(* envelopes, and DefaultServer.Stop.                                      *)
(*                                                                         *)
(* One Go call is one record of `calls`; the task `go c.send(call)` (thor) *)
(* or `go func(){...}` (pkg) is the program counter `task[i].pc`; the      *)
(* caller inside CallWithMetadata is `caller[i]`.  An error object is      *)
(* named by its text (code and message of *errors.Error); an error built   *)
(* anew with the text of a sentinel has a name of its own.                 *)
(* `obs` records what happened to each call (who signalled it, when its    *)
(* reply slot was written); no action reads it.                            *)
(***************************************************************************)
EXTENDS Integers, FiniteSets, Sequences, TLC

\* ---------------------------------------------------------------- bounds
MaxCalls == 2          \* Go invocations explored per client
MaxCloses == 2         \* Close invocations explored per client
MaxStops == 2          \* Stop invocations explored per server
MaxSenders == 2        \* concurrent Send calls on one transport
MaxTransportCloses == 2  \* Close calls on one transport
MaxWatchers == 1       \* Watch calls on one service
MaxChanges == 11       \* Register and Unregister calls on one service

\* ------------------------------------------------------ program constants
DoneCap == 1           \* make(chan *Call, 1) in CallWithMetadata

\* ---------------------------------------------------------------- values
Variants == {"thor", "pkg", "server"}   \* thor.DefaultClient, pkg.DefaultClient, thor.DefaultServer
CallIds == 1..MaxCalls

NilErr == "nil"
ErrClientClosed == "unknown: client closed"
ErrServerClosed == "unknown: server closed"
ErrMarshal == "marshal request"
ErrIO == "unknown: transport i/o"
ErrCtx == "cancelled: context cancelled"
ErrCtxPlain == "context error"
\* errors.New(errors.ErrorCodeUnknown, resp.Error) of thor's handleResponse
\* and errors.New(resp.Error, resp.Error) of pkg's terminal handler, for
\* the error texts the frame handler produces.
thorRemoteError(text) ==
    IF text = "unmarshal request" THEN "unknown: unmarshal request"
    ELSE "unknown: handler error"
pkgRemoteError(text) ==
    IF text = "unmarshal request" THEN "unmarshal request: unmarshal request"
    ELSE "handler error: handler error"
ErrTooLarge == "invalid_argument: message too large"
ErrWriteDeadline == "unknown: failed to set write deadline"
ErrReadDeadline == "unknown: failed to set read deadline"
ErrResponseTooLarge == "invalid_argument: response too large"
ErrNoTarget == "invalid_argument: target address is required"
ErrDial == "unknown: failed to dial"
ErrUnmarshalResponse == "unmarshal response"
ErrUnmarshalReply == "unmarshal reply"

NilMd == "nil"
Mds == {NilMd, "md"}       \* the metadata argument of CallWithMetadata
Unsent == "unsent"         \* no request envelope built yet

EmptyReply == "empty"
ReplyBytes == "reply"

VARIABLES
    variant,     \* which program runs: a draft of DefaultClient, or DefaultServer
    closed,      \* DefaultClient.closed
    seq,         \* DefaultClient.seq
    pending,     \* DefaultClient.pending: seq -> call id
    ncalls,      \* number of Call records created so far
    calls,       \* the Call records
    args,        \* per call: arguments of CallWithMetadata (md) and ctx state
    task,        \* per call: the background task
    caller,      \* per call: the goroutine inside CallWithMetadata
    obs,         \* per call: observation record
    tr,          \* the client's transport
    cl,          \* Close bookkeeping: invocations and return values
    crashed,     \* a goroutine panicked (nil dereference)
    srv,         \* DefaultServer: closed flag, its transport, Stop returns
    impl,        \* which client/server pair handles calls end to end
    cmw,         \* the client's middlewares, in the order Use stored them
    smw,         \* the server's middlewares, in the order Use stored them
    serviceMap,  \* DefaultServer.serviceMap: service name -> service
    regRet,      \* what the last register returned
    last,        \* the last call handled end to end, as observed
    down,        \* the server process died of an unrecovered panic
    fin,         \* input of a pure function
    fout,        \* its result
    tpt,         \* a Transport: kind, closed, listener, cached connection
    snd,         \* per Send call: position, connection, result
    lsn,         \* the Listen call: position, result
    cls,         \* per Close call on the transport: position, result
    wire,        \* per connection: state, bytes in flight each way
    dsv,         \* Discovery.services[name]: the instance list
    wch,         \* per watcher: channel, snapshots on their way, counts
    nchg,        \* Register and Unregister calls made
    dret,        \* what the last Discovery call returned
    rty,         \* one run of the retry middleware's handler
    bal          \* a round-robin Balancer and the Select calls on it

clientVars == <<variant, closed, seq, pending, ncalls, calls, args, task,
                caller, obs, tr, cl, crashed>>
dispatchVars == <<impl, cmw, smw, serviceMap, regRet, last, down>>
fnVars == <<fin, fout>>
netVars == <<tpt, snd, lsn, cls, wire>>
discVars == <<dsv, wch, nchg, dret>>
libVars == <<rty, bal>>

vars == <<variant, closed, seq, pending, ncalls, calls, args, task, caller,
          obs, tr, cl, crashed, srv, impl, cmw, smw, serviceMap, regRet,
          last, down, fin, fout, tpt, snd, lsn, cls, wire,
          dsv, wch, nchg, dret, rty, bal>>

\* ------------------------------------------------------------ the records
\* Done is the number of calls buffered in (or being handed over on) the
\* call's Done channel, Cap the channel's capacity, Nil whether the channel
\* is nil, and Recv whether a receiver is parked at <-call.Done.
NoCall == [Seq |-> 0, Error |-> NilErr, Reply |-> EmptyReply,
           Metadata |-> NilMd, Done |-> 0, Cap |-> DoneCap, Nil |-> FALSE,
           Recv |-> FALSE]

\* of is the seq of the request a response answers, -1 when there is none.
NoResp == [kind |-> "none", Seq |-> 0, Error |-> "", Payload |-> "", of |-> -1]

\* tgt, err, path and rs belong to a task between its delete from c.pending
\* and its call.done(): the call it took out of the table, the error it
\* is about to store, the code path, and the seq of the response it used
\* for the lookup (-1 when it used the call's own seq).
NoTask == [pc |-> "none", reqMeta |-> Unsent, resp |-> NoResp,
           tgt |-> 0, err |-> NilErr, path |-> "none", rs |-> -1]

NoCaller == [pc |-> "none", ret |-> NilErr]

NoArgs == [md |-> NilMd, ctxFired |-> FALSE]

NoObs == [born |-> "none", signals |-> 0, paths |-> {}, replyWrites |-> 0,
          lateWrite |-> FALSE, hits |-> {}, ctxEarly |-> FALSE,
          sends |-> 0, atClose |-> FALSE]

\* ---------------------------------------------------------------- server
\* The frame handler DefaultServer.Serve hands to Listen, as a function of
\* the request's seq and of what happens while handling the frame:
\* `decodable` is whether jsonCodec.Unmarshal(message, &req) succeeds on the
\* frame as the server read it (the stream transport writes header and body
\* of concurrent Sends on one shared connection without a lock), `outcome`
\* whether handleRequest returns a response or an error.  The response to
\* an undecodable frame carries no Seq (0) and no ServiceMethod.
FrameHandler(reqSeq, decodable, outcome) ==
    IF ~decodable
    THEN [kind |-> "env", Seq |-> 0, Error |-> "unmarshal request",
          Payload |-> "", of |-> reqSeq]
    ELSE IF outcome = "err"
    THEN [kind |-> "env", Seq |-> reqSeq, Error |-> "handler error",
          Payload |-> "", of |-> reqSeq]
    ELSE [kind |-> "env", Seq |-> reqSeq, Error |-> "", Payload |-> ReplyBytes,
          of |-> reqSeq]

\* Bytes a Send can return when the responses in `unread` wait on the
\* shared connection: the frame handler's answer to any request written
\* and not yet answered to a Send (nothing in Send ties the frame it reads
\* to the frame it wrote), or bytes that are no envelope.
Responses(unread) ==
    { FrameHandler(q, d, o) : q \in unread, d \in BOOLEAN, o \in {"ok", "err"} }
      \cup { [kind |-> "garbage", Seq |-> 0, Error |-> "", Payload |-> "",
               of |-> -1] }

\* ---------------------------------------------------------------- Call.done
\* Non-blocking send on the call's Done channel holding n calls: the call
\* is queued if there is room and discarded otherwise.
DoneSend(n, room) == IF n < room THEN n + 1 ELSE n

\* What a send on call c's Done channel can put down without waiting: the
\* buffer, and one more for a parked receiver; nothing on a nil channel.
Room(c) == IF c.Nil THEN 0 ELSE c.Cap + (IF c.Recv THEN 1 ELSE 0)

\* call.done() on call j.
Signal(cs, j) == [cs EXCEPT ![j].Done = DoneSend(@, Room(cs[j]))]

\* call.Error = err; call.done() on call j.
SetErrorAndSignal(cs, j, err) ==
    [Signal(cs, j) EXCEPT ![j].Error = err]

\* Observation of a done() on call j: `path` is the code path that ran it,
\* `src` the call whose task ran it and `rs` the seq of the response that
\* task holds (-1 when no response is involved).
NoteSignal(os, j, path, src, rs) ==
    [os EXCEPT ![j].signals = @ + 1,
               ![j].paths = @ \cup {path},
               ![j].hits = IF rs >= 0 THEN @ \cup {<<src, rs>>} ELSE @]

\* ---------------------------------------------------------------- Init
\* Close bookkeeping: n invocations have returned, the last returned ret;
\* pc is the position of the invocation that holds c.mu ("idle" when none
\* does), todo the pending calls its loop has not visited, cur the call
\* whose Error it has written and not yet signalled.
IdleClose == [n |-> 0, ret |-> "none", trClosesBefore |-> 0, pc |-> "idle",
              todo |-> {}, cur |-> 0]

\* c.mu is free.
MuFree == cl.pc = "idle"

\* The client as NewClient returns it, and a server not yet stopped.
ClientFresh ==
    /\ closed = FALSE
    /\ seq = 0
    /\ pending = <<>>
    /\ ncalls = 0
    /\ calls = [i \in CallIds |-> NoCall]
    /\ args = [i \in CallIds |-> NoArgs]
    /\ task = [i \in CallIds |-> NoTask]
    /\ caller = [i \in CallIds |-> NoCaller]
    /\ obs = [i \in CallIds |-> NoObs]
    /\ tr = [closed |-> FALSE, closes |-> 0, unread |-> {}]
    /\ cl = IdleClose
    /\ crashed = FALSE
    /\ srv = [closed |-> FALSE, trCloses |-> 0, n |-> 0, ret |-> "none",
              trClosesBefore |-> 0]

\* ---------------------------------------------------------------- Go
\* errors.New(errors.ErrorCodeUnknown, "client closed") as pkg's Go
\* evaluates it: an *Error of its own, with the code and the message of the
\* sentinel ErrClientClosed and no cause.
ClientClosedNew == "unknown: client closed (errors.New)"

\* errors.Is(err, target) for these errors: *Error has no Is method and
\* none of them has a cause, so err matches target when it is the same
\* object.
Is(err, target) == err = target

\* The error Go stores in a call made on a closed client: the sentinel
\* ErrClientClosed (thor), a new error with the same text (pkg).
GoClosedError == IF variant = "thor" THEN ErrClientClosed ELSE ClientClosedNew

\* The value Go leaves in c.seq after allocating s.
NextSeqStuck(s) == s
NextSeq(s) == s + 1

\* CallWithMetadata up to the return of Go: Go(ctx, m, args, reply,
\* make(chan *Call, 1)), the whole of Go under c.mu and the start of the
\* background task.  The caller continues at "meta" (thor) or at "wait"
\* (pkg, which never stores md).  c.seq is a uint64; the calls explored
\* stay far from its wrap.
Go(md) ==
    /\ ~crashed
    /\ variant \in {"thor", "pkg"}
    /\ ncalls < MaxCalls
    /\ MuFree
    /\ LET i == ncalls + 1 IN
       /\ ncalls' = i
       /\ args' = [args EXCEPT ![i].md = md]
       /\ caller' = [caller EXCEPT
                       ![i].pc = IF variant = "thor" THEN "meta" ELSE "wait"]
       /\ IF closed
          THEN /\ calls' = SetErrorAndSignal(calls, i, GoClosedError)
               /\ obs' = [NoteSignal(obs, i, "go", i, -1) EXCEPT ![i].born = "closed"]
               /\ UNCHANGED <<seq, pending, task>>
          ELSE /\ seq' = NextSeq(seq)
               /\ calls' = [calls EXCEPT ![i].Seq = seq]
               /\ pending' = (seq :> i) @@ pending
               /\ task' = [task EXCEPT ![i].pc = "send"]
               /\ obs' = [obs EXCEPT ![i].born = "open"]
    /\ UNCHANGED <<variant, closed, tr, cl, crashed, srv>>

\* ---------------------------------------------------------------- context
\* The call's context is cancelled or its deadline elapses (the caller's
\* deadline, or the DefaultTimeout send adds when there is none).
\* The done argument of a direct Go: nil, unbuffered, buffered and empty,
\* buffered and already full.
NilChan == [nil |-> TRUE, cap |-> 0, n |-> 0]
DoneChans ==
    { NilChan,
      [nil |-> FALSE, cap |-> 0, n |-> 0],
      [nil |-> FALSE, cap |-> DoneCap, n |-> 0],
      [nil |-> FALSE, cap |-> DoneCap, n |-> DoneCap] }

\* call := c.Go(ctx, serviceMethod, args, reply, done) with the caller's own
\* done channel.  On a closed client thor replaces a nil done by
\* make(chan *Call, 1) and calls call.done(); pkg, after c.mu.Unlock(),
\* reaches the plain send `done <- call` unless done is nil.
GoWith(ch) ==
    /\ ~crashed
    /\ variant \in {"thor", "pkg"}
    /\ ncalls < MaxCalls
    /\ MuFree
    /\ LET i == ncalls + 1
           own == [NoCall EXCEPT !.Cap = ch.cap, !.Done = ch.n, !.Nil = ch.nil]
       IN
       /\ ncalls' = i
       /\ IF closed
          THEN /\ IF variant = "thor"
                  THEN /\ calls' = SetErrorAndSignal(
                                      [calls EXCEPT ![i] = IF ch.nil THEN NoCall ELSE own],
                                      i, GoClosedError)
                       /\ obs' = [NoteSignal(obs, i, "go", i, -1) EXCEPT ![i].born = "closed"]
                       /\ caller' = [caller EXCEPT ![i].pc = "holds"]
                  ELSE /\ calls' = [calls EXCEPT ![i] = [own EXCEPT !.Error = GoClosedError]]
                       /\ obs' = [obs EXCEPT ![i].born = "closed"]
                       /\ caller' = [caller EXCEPT
                                       ![i].pc = IF ch.nil THEN "holds" ELSE "signal"]
               /\ UNCHANGED <<seq, pending, task>>
          ELSE /\ seq' = NextSeq(seq)
               /\ calls' = [calls EXCEPT ![i] = [own EXCEPT !.Seq = seq]]
               /\ pending' = (seq :> i) @@ pending
               /\ task' = [task EXCEPT ![i].pc = "send"]
               /\ obs' = [obs EXCEPT ![i].born = "open"]
               /\ caller' = [caller EXCEPT ![i].pc = "holds"]
    /\ UNCHANGED <<variant, closed, args, tr, cl, crashed, srv>>

\* `done <- call` in pkg's Go on a closed client: the send waits until the
\* channel takes the call; then Go returns it.
GoSignal(i) ==
    /\ ~crashed
    /\ caller[i].pc = "signal"
    /\ calls[i].Done < Room(calls[i])
    /\ calls' = Signal(calls, i)
    /\ obs' = NoteSignal(obs, i, "go", i, -1)
    /\ caller' = [caller EXCEPT ![i].pc = "holds"]
    /\ UNCHANGED <<variant, closed, seq, pending, ncalls, args, task, tr, cl,
                   crashed, srv>>

\* The caller of Go arrives at <-call.Done.
Park(i) ==
    /\ ~crashed
    /\ caller[i].pc = "holds"
    /\ ~calls[i].Nil
    /\ calls' = [calls EXCEPT ![i].Recv = TRUE]
    /\ caller' = [caller EXCEPT ![i].pc = "parked"]
    /\ UNCHANGED <<variant, closed, seq, pending, ncalls, args, task, obs, tr,
                   cl, crashed, srv>>

\* <-call.Done yields a call; the read of call.Error is the caller's next
\* step (returnError).
Receive(i) ==
    /\ ~crashed
    /\ caller[i].pc = "parked"
    /\ calls[i].Done > 0
    /\ calls' = [calls EXCEPT ![i].Done = @ - 1, ![i].Recv = FALSE]
    /\ caller' = [caller EXCEPT ![i].pc = "read"]
    /\ UNCHANGED <<variant, closed, seq, pending, ncalls, args, task, obs, tr,
                   cl, crashed, srv>>

\* The context is the caller's: it can be done before Go is called, while
\* the call runs and after it ended.
CtxFire(i) ==
    /\ ~crashed
    /\ ~args[i].ctxFired
    /\ args' = [args EXCEPT ![i].ctxFired = TRUE]
    /\ obs' = [obs EXCEPT ![i].ctxEarly = (task[i].pc = "in_send")]
    /\ UNCHANGED <<variant, closed, seq, pending, ncalls, calls, task, caller,
                   tr, cl, crashed, srv>>

\* ---------------------------------------------------------------- thor: failing a call
\* The pattern of every error path of send and handleResponse that uses the
\* call's own sequence number:
\*     c.mu.Lock(); call = c.pending[call.Seq]; delete(c.pending, call.Seq)
\*     c.mu.Unlock()
\*     if call != nil { call.Error = err; call.done() }
\* When the entry is gone the first statement makes `call` nil and the
\* second dereferences it: the goroutine panics and the process dies.
\* The store of call.Error and call.done() are steps of their own, taken
\* without the lock.
Remove(p, s) == [k \in DOMAIN p \ {s} |-> p[k]]

\* The task of call i has taken call j out of the table and goes on to
\* store err in it.
Holding(t, i, j, err, path, rs) ==
    [t EXCEPT ![i].pc = "store", ![i].tgt = j, ![i].err = err,
              ![i].path = path, ![i].rs = rs]

\* The task of call i ends.
Exit(t, i) ==
    [t EXCEPT ![i].pc = "exit", ![i].tgt = 0, ![i].err = NilErr,
              ![i].path = "none", ![i].rs = -1]

\* The locked part; `os` is the observation record the action has prepared
\* so far.
FailOwn(i, err, path, os) ==
    LET s == calls[i].Seq IN
    /\ MuFree
    /\ obs' = os
    /\ UNCHANGED calls
    /\ IF s \in DOMAIN pending
       THEN /\ pending' = Remove(pending, s)
            /\ task' = Holding(task, i, pending[s], err, path, -1)
            /\ crashed' = crashed
       ELSE /\ crashed' = TRUE
            /\ task' = Exit(task, i)
            /\ UNCHANGED pending

\* call.Error = err, by the task of call i on the call it holds.
storeError(i) ==
    /\ ~crashed
    /\ task[i].pc = "store"
    /\ calls' = [calls EXCEPT ![task[i].tgt].Error = task[i].err]
    /\ task' = [task EXCEPT ![i].pc = "done"]
    /\ UNCHANGED <<variant, closed, seq, pending, ncalls, args, caller, obs,
                   tr, cl, crashed, srv>>

\* call.done(), by the task of call i on the call it holds.
callDone(i) ==
    /\ ~crashed
    /\ task[i].pc = "done"
    /\ calls' = Signal(calls, task[i].tgt)
    /\ obs' = NoteSignal(obs, task[i].tgt, task[i].path, i, task[i].rs)
    /\ task' = Exit(task, i)
    /\ UNCHANGED <<variant, closed, seq, pending, ncalls, args, caller, tr,
                   cl, crashed, srv>>

\* ---------------------------------------------------------------- thor: send
\* send, from its start to the call of transport.Send: marshal the
\* arguments, build the request envelope (reading call.Metadata), marshal it.
SendMetadata(i) == calls[i].Metadata

send(i, marshalFails) ==
    /\ ~crashed
    /\ variant = "thor"
    /\ task[i].pc = "send"
    /\ IF marshalFails
       THEN FailOwn(i, ErrMarshal, "send", obs)
       ELSE /\ task' = [task EXCEPT ![i].pc = "transport",
                                    ![i].reqMeta = SendMetadata(i)]
            /\ UNCHANGED <<pending, calls, obs, crashed>>
    /\ UNCHANGED <<variant, closed, seq, ncalls, args, caller, tr, cl, srv>>

\* ---------------------------------------------------------------- transport
\* What can stop the stream transport's Send on its arguments, besides
\* the closed flag: a message longer than maxMsgSize, no target address.
SendFaults == {"none", "large", "target"}

\* The first checks of Send, in its order: the transport is closed, the
\* message is too large, there is no target address.  "" means Send goes
\* on to the connection.
SendPrecheck(i, fault) ==
    IF tr.closed THEN ErrServerClosed
    ELSE IF fault = "large" THEN ErrTooLarge
    ELSE IF fault = "target" THEN ErrNoTarget
    ELSE ""

\* What Send returns once it has its connection: the dial failed, or the
\* context is done.  "" means it goes on to write.
SendConnectError(i, dialFails) ==
    IF dialFails THEN ErrDial
    ELSE IF args[i].ctxFired THEN ErrCtx
    ELSE ""

\* The outcomes of the write: SetWriteDeadline fails (the connection was
\* closed under the Send), a conn.Write fails, or the frame is written.
WriteOutcomes == {"deadline", "io", "ok"}

\* The outcomes of reading the response: SetReadDeadline fails (the
\* connection was closed under the Send), an io.ReadFull fails, the size
\* header declares more than maxMsgSize, or the response is read.
ReadOutcomes == {"deadline", "io", "large", "ok"}

\* The outcomes in which Send returns before it has read a response's size
\* header.
NothingRead == {"deadline", "io"}

\* The error of a Send that fails while reading, "" if it does not.
SendReadError(out) ==
    IF out = "deadline" THEN ErrReadDeadline
    ELSE IF out = "io" THEN ErrIO
    ELSE IF out = "large" THEN ErrResponseTooLarge
    ELSE ""

\* transport.Send has returned err to the task of call i: thor's send goes
\* on to c.mu.Lock(), pkg's handler returns err to its goroutine, which
\* goes on to call.Error = err.
SendFailed(t, i, err) ==
    IF variant = "thor"
    THEN [t EXCEPT ![i].pc = "failed", ![i].err = err, ![i].path = "send"]
    ELSE Holding(t, i, i, err, "task", -1)

\* The transport once the request of seq s is written: its response will
\* wait on the connection.
Written(t, s) == [t EXCEPT !.unread = @ \cup {s}]

\* The transport once a Send has read response r.
Read(t, r) == [t EXCEPT !.unread = @ \ {r.of}]

\* send calls transport.Send(ctx, "", reqData) (thor), and Send makes its
\* first checks: it returns an error, or goes on to the connection.
sendTransport(i, fault) ==
    /\ ~crashed
    /\ variant = "thor"
    /\ task[i].pc = "transport"
    /\ obs' = [obs EXCEPT ![i].sends = @ + 1]
    /\ task' = IF SendPrecheck(i, fault) # ""
               THEN SendFailed(task, i, SendPrecheck(i, fault))
               ELSE [task EXCEPT ![i].pc = "connect"]
    /\ UNCHANGED <<variant, closed, seq, pending, ncalls, calls, args, caller,
                   tr, cl, crashed, srv>>

\* Send looks the connection up, dials if there is none, and tests the
\* context; t.closed is not looked at again.
SendConnect(i, dialFails) ==
    /\ ~crashed
    /\ task[i].pc = "connect"
    /\ task' = IF SendConnectError(i, dialFails) # ""
               THEN SendFailed(task, i, SendConnectError(i, dialFails))
               ELSE [task EXCEPT ![i].pc = "write"]
    /\ UNCHANGED <<variant, closed, seq, pending, ncalls, calls, args, caller,
                   obs, tr, cl, crashed, srv>>

\* Send sets the write deadline and writes the size header and the
\* message.
SendWrite(i, out) ==
    /\ ~crashed
    /\ task[i].pc = "write"
    /\ IF out = "ok"
       THEN /\ task' = [task EXCEPT ![i].pc = "in_send"]
            /\ tr' = Written(tr, calls[i].Seq)
       ELSE /\ task' = SendFailed(task, i, IF out = "deadline"
                                           THEN ErrWriteDeadline ELSE ErrIO)
            /\ UNCHANGED tr
    /\ UNCHANGED <<variant, closed, seq, pending, ncalls, calls, args, caller,
                   obs, cl, crashed, srv>>

\* if err != nil { c.mu.Lock(); call = c.pending[call.Seq]; ... of send,
\* once it has c.mu.
sendFailed(i) ==
    /\ ~crashed
    /\ variant = "thor"
    /\ task[i].pc = "failed"
    /\ FailOwn(i, task[i].err, task[i].path, obs)
    /\ UNCHANGED <<variant, closed, seq, ncalls, args, caller, tr, cl, srv>>

\* Send reads the response and returns to send: SetReadDeadline fails,
\* or an io.ReadFull fails (read timeout, connection closed under it), or
\* the header of r declares too large a response, or r is read, and send
\* hands it to a new goroutine running handleResponse.
sendReturn(i, out, r) ==
    /\ ~crashed
    /\ variant = "thor"
    /\ task[i].pc = "in_send"
    /\ out \in ReadOutcomes
    /\ task' = IF out = "ok"
               THEN [task EXCEPT ![i].pc = "handleResponse", ![i].resp = r]
               ELSE SendFailed(task, i, SendReadError(out))
    /\ tr' = IF out \in NothingRead THEN tr ELSE Read(tr, r)
    /\ UNCHANGED <<variant, closed, seq, pending, ncalls, calls, args, caller,
                   obs, cl, crashed, srv>>

\* ---------------------------------------------------------------- thor: handleResponse
\* The write of the caller's reply slot by c.codec.Unmarshal(data, call.Reply)
\* (thor) or by reflect.ValueOf(reply).Elem().Set(...) (pkg).
WriteReply(cs, i, bytes) == [cs EXCEPT ![i].Reply = bytes]

\* Observation of a write of call i's reply slot from a response of seq rs.
NoteReplyWrite(os, i, rs) ==
    [os EXCEPT ![i].replyWrites = @ + 1,
               ![i].lateWrite = @ \/ os[i].signals > 0,
               ![i].hits = @ \cup {<<i, rs>>}]

\* handleResponse up to the reply's decoding: the envelope does not decode;
\* or it carries an error, and the call registered under resp.Seq is
\* failed; or the payload is decoded into call.Reply.
handleResponse(i, replyFails) ==
    /\ ~crashed
    /\ variant = "thor"
    /\ task[i].pc = "handleResponse"
    /\ LET r == task[i].resp IN
       IF r.kind = "garbage"
       THEN FailOwn(i, ErrUnmarshalResponse, "handleResponse", obs)
       ELSE IF r.Error # ""
       THEN /\ MuFree
            /\ pending' = Remove(pending, r.Seq)
            /\ task' = IF r.Seq \in DOMAIN pending
                       THEN Holding(task, i, pending[r.Seq],
                                    thorRemoteError(r.Error),
                                    "handleResponse", r.Seq)
                       ELSE Exit(task, i)
            /\ UNCHANGED <<calls, obs, crashed>>
       ELSE IF replyFails
       THEN FailOwn(i, ErrUnmarshalReply, "handleResponse", obs)
       ELSE /\ calls' = WriteReply(calls, i, r.Payload)
            /\ obs' = NoteReplyWrite(obs, i, r.Seq)
            /\ task' = [task EXCEPT ![i].pc = "finish"]
            /\ UNCHANGED <<pending, crashed>>
    /\ UNCHANGED <<variant, closed, seq, ncalls, args, caller, tr, cl, srv>>

\* handleResponse's last step: take the call registered under resp.Seq out
\* of the table and finish it.
finish(i) ==
    /\ ~crashed
    /\ variant = "thor"
    /\ task[i].pc = "finish"
    /\ MuFree
    /\ LET s == task[i].resp.Seq IN
       /\ pending' = Remove(pending, s)
       /\ task' = IF s \in DOMAIN pending
                  THEN [Holding(task, i, pending[s], NilErr,
                                "handleResponse", s) EXCEPT ![i].pc = "done"]
                  ELSE Exit(task, i)
    /\ UNCHANGED <<variant, closed, seq, ncalls, calls, args, caller, obs, tr,
                   cl, crashed, srv>>

\* ---------------------------------------------------------------- Close
\* The calls held by c.pending.
PendingCalls == { pending[s] : s \in DOMAIN pending }

\* transport.Close() of the stream transport; `closes` counts its
\* invocations.
TransportClose(t) ==
    [t EXCEPT !.closed = TRUE, !.closes = @ + 1]

\* What Close returns on a client that is already closed.
CloseAgain == IF variant = "thor" THEN ErrClientClosed ELSE NilErr

\* Close takes c.mu and keeps it until it returns.  On a closed client it
\* returns at once.  Otherwise it marks the client closed and goes on to
\* its loop over c.pending (thor), or to transport.Close() (pkg, which
\* leaves the pending calls alone).
Close ==
    /\ ~crashed
    /\ variant \in {"thor", "pkg"}
    /\ cl.n < MaxCloses
    /\ MuFree
    /\ IF closed
       THEN /\ cl' = [cl EXCEPT !.n = @ + 1, !.ret = CloseAgain,
                                !.trClosesBefore = tr.closes]
            /\ UNCHANGED <<closed, obs>>
       ELSE /\ closed' = TRUE
            /\ cl' = [cl EXCEPT !.pc = "loop", !.trClosesBefore = tr.closes,
                                !.todo = IF variant = "thor" THEN PendingCalls
                                         ELSE {}]
            /\ obs' = [i \in CallIds |->
                         IF i \in PendingCalls
                            /\ (variant = "thor" \/ obs[i].signals = 0)
                         THEN [obs[i] EXCEPT !.atClose = TRUE]
                         ELSE obs[i]]
    /\ UNCHANGED <<variant, seq, pending, ncalls, calls, args, task, caller,
                   tr, crashed, srv>>

\* for _, call := range c.pending { call.Error = errors.ErrClientClosed ...
\* on any call the loop has not visited (a map is ranged over in no
\* particular order).
CloseStore(j) ==
    /\ ~crashed
    /\ cl.pc = "loop"
    /\ cl.cur = 0
    /\ j \in cl.todo
    /\ calls' = [calls EXCEPT ![j].Error = ErrClientClosed]
    /\ cl' = [cl EXCEPT !.cur = j, !.todo = @ \ {j}]
    /\ UNCHANGED <<variant, closed, seq, pending, ncalls, args, task, caller,
                   obs, tr, crashed, srv>>

\* ... call.done() }
CloseDone ==
    /\ ~crashed
    /\ cl.pc = "loop"
    /\ cl.cur # 0
    /\ calls' = Signal(calls, cl.cur)
    /\ obs' = NoteSignal(obs, cl.cur, "Close", cl.cur, -1)
    /\ cl' = [cl EXCEPT !.cur = 0]
    /\ UNCHANGED <<variant, closed, seq, pending, ncalls, args, task, caller,
                   tr, crashed, srv>>

\* c.transport.Close(), called once the loop is over.
CloseTransport ==
    /\ ~crashed
    /\ cl.pc = "loop"
    /\ cl.cur = 0
    /\ cl.todo = {}
    /\ tr' = TransportClose(tr)
    /\ cl' = [cl EXCEPT !.pc = "return"]
    /\ UNCHANGED <<variant, closed, seq, pending, ncalls, calls, args, task,
                   caller, obs, crashed, srv>>

\* Close returns what transport.Close() returned and releases c.mu.
CloseReturn ==
    /\ ~crashed
    /\ cl.pc = "return"
    /\ cl' = [cl EXCEPT !.pc = "idle", !.n = @ + 1, !.ret = NilErr]
    /\ UNCHANGED <<variant, closed, seq, pending, ncalls, calls, args, task,
                   caller, obs, tr, crashed, srv>>

\* ---------------------------------------------------------------- thor: the caller
\* CallWithMetadata after Go returned: call.Metadata = metadata.
setMetadata(i) ==
    /\ ~crashed
    /\ caller[i].pc = "meta"
    /\ calls' = [calls EXCEPT ![i].Metadata = args[i].md]
    /\ caller' = [caller EXCEPT ![i].pc = "wait"]
    /\ UNCHANGED <<variant, closed, seq, pending, ncalls, args, task, obs, tr,
                   cl, crashed, srv>>

\* <-call.Done  (thor)
\* select { case <-ctx.Done(): return ctx.Err()
\*          case call := <-call.Done: ... }  (pkg)
\* The receive; the read of call.Error is the caller's next step.
await(i, viaCtx) ==
    /\ ~crashed
    /\ caller[i].pc = "wait"
    /\ IF viaCtx
       THEN /\ variant = "pkg"
            /\ args[i].ctxFired
            /\ caller' = [caller EXCEPT ![i] = [pc |-> "returned", ret |-> ErrCtxPlain]]
            /\ UNCHANGED calls
       ELSE /\ calls[i].Done > 0
            /\ calls' = [calls EXCEPT ![i].Done = @ - 1]
            /\ caller' = [caller EXCEPT ![i].pc = "read"]
    /\ UNCHANGED <<variant, closed, seq, pending, ncalls, args, task, obs, tr,
                   cl, crashed, srv>>

\* return call.Error
returnError(i) ==
    /\ ~crashed
    /\ caller[i].pc = "read"
    /\ caller' = [caller EXCEPT ![i] = [pc |-> "returned", ret |-> calls[i].Error]]
    /\ UNCHANGED <<variant, closed, seq, pending, ncalls, calls, args, task,
                   obs, tr, cl, crashed, srv>>

\* ---------------------------------------------------------------- pkg: the task of Go
\* The terminal handler of pkg's Go up to the first checks of
\* transport.Send: marshal the arguments, build the request (it has no
\* Metadata field set), marshal it, call Send.  With an error the goroutine
\* goes on to call.Error = err and c.finish(call), steps of their own.
pkgHandler(i, marshalFails, fault) ==
    /\ ~crashed
    /\ variant = "pkg"
    /\ task[i].pc = "send"
    /\ LET err == IF marshalFails THEN ErrMarshal ELSE SendPrecheck(i, fault)
           os == IF marshalFails THEN obs ELSE [obs EXCEPT ![i].sends = @ + 1]
       IN
       /\ obs' = os
       /\ task' = IF err # ""
                  THEN Holding([task EXCEPT ![i].reqMeta =
                                   IF marshalFails THEN @ ELSE NilMd],
                               i, i, err, "task", -1)
                  ELSE [task EXCEPT ![i].pc = "connect", ![i].reqMeta = NilMd]
    /\ UNCHANGED <<variant, closed, seq, pending, ncalls, calls, args, caller,
                   tr, cl, crashed, srv>>

\* The error the terminal handler makes of what Send returned, "" if none.
PkgResultError(out, r, replyFails) ==
    IF out # "ok" THEN SendReadError(out)
    ELSE IF r.kind = "garbage" THEN ErrUnmarshalResponse
    ELSE IF r.Error # "" THEN pkgRemoteError(r.Error)
    ELSE IF replyFails THEN ErrUnmarshalReply
    ELSE ""

\* Send returns and the handler decodes the response: with an error the
\* goroutine goes on to call.Error = err, and otherwise it copies the
\* result into reply; c.finish(call) is its last step.
pkgComplete(i, out, r, replyFails) ==
    /\ ~crashed
    /\ variant = "pkg"
    /\ task[i].pc = "in_send"
    /\ out \in ReadOutcomes
    /\ LET err == PkgResultError(out, r, replyFails)
           got == [task EXCEPT ![i].resp = IF out = "ok" THEN r ELSE @]
       IN
       IF err # ""
       THEN /\ task' = Holding(got, i, i, err, "task", -1)
            /\ UNCHANGED <<calls, obs>>
       ELSE /\ calls' = WriteReply(calls, i, r.Payload)
            /\ obs' = NoteReplyWrite(obs, i, r.Seq)
            /\ task' = [Holding(got, i, i, NilErr, "task", r.Seq)
                           EXCEPT ![i].pc = "done"]
    /\ tr' = IF out \in NothingRead THEN tr ELSE Read(tr, r)
    /\ UNCHANGED <<variant, closed, seq, pending, ncalls, args, caller, cl,
                   crashed, srv>>

\* ---------------------------------------------------------------- DefaultServer.Stop
\* Stop, under s.mu; trCloses counts the invocations of s.transport.Close().
Stop ==
    /\ variant = "server"
    /\ srv.n < MaxStops
    /\ IF srv.closed
       THEN srv' = [srv EXCEPT !.n = @ + 1, !.ret = ErrServerClosed,
                               !.trClosesBefore = srv.trCloses]
       ELSE srv' = [closed |-> TRUE, trCloses |-> srv.trCloses + 1,
                    n |-> srv.n + 1, ret |-> NilErr,
                    trClosesBefore |-> srv.trCloses]
    /\ UNCHANGED <<variant, closed, seq, pending, ncalls, calls, args, task,
                   caller, obs, tr, cl, crashed>>

\* ================================================================ dispatch
\* A call handled end to end: the client's middleware chain, the request
\* envelope, the server's frame handler and dispatch, the response
\* envelope and the error the caller gets.  Texts are sequences of pieces
\* ("" is <<>>); names and routes are sequences of characters.

\* The client/server pairs: DefaultClient and DefaultServer of package thor,
\* those of package pkg, and Client of client.go over an opaque ClientConn.
Impls == {"thor", "pkg", "simple"}

\* ---------------------------------------------------------------- errors
ErrorCodeUnknown == <<"unknown">>
ErrorCodeInvalidArgument == <<"invalid_argument">>
ErrorCodeNotFound == <<"not_found">>
ErrorCodeAlreadyExists == <<"already_exists">>
ErrorCodeTimeout == <<"timeout">>
ErrorCodeDeadlineExceeded == <<"deadline_exceeded">>

\* A nil error, an *errors.Error (New) and any other error (errors.New of
\* the standard library, fmt.Errorf).
NilError == [type |-> "nil", Code |-> <<>>, Message |-> <<>>]
New(code, message) == [type |-> "Error", Code |-> code, Message |-> message]
Errorf(message) == [type |-> "plain", Code |-> <<>>, Message |-> message]

\* (*Error).Error() with a nil Cause, and Error() of the other errors.
ErrorString(e) ==
    IF e.type = "Error" THEN e.Code \o <<": ">> \o e.Message ELSE e.Message

\* Code: the Code of the *Error found by errors.As, else unknown.
Code(e) == IF e.type = "Error" THEN e.Code ELSE ErrorCodeUnknown

ErrServiceNotFound == New(ErrorCodeNotFound, <<"service not found">>)
ErrMethodNotFound == New(ErrorCodeNotFound, <<"method not found">>)
ServerClosedError == New(ErrorCodeUnknown, <<"server closed">>)

\* ---------------------------------------------------------------- routes
\* Index of the first '.', 0 when there is none: the loop of
\* parseServiceMethod leaves dot = 0 in that case, and also when the first
\* '.' is the first character (Go index 0 is index 1 here).
RECURSIVE FirstDot(_, _)
FirstDot(sm, i) ==
    IF i > Len(sm) THEN 0
    ELSE IF sm[i] = "." THEN i
    ELSE FirstDot(sm, i + 1)

\* parseServiceMethod: dot (a Go index) is FirstDot - 1, and `dot == 0`
\* is the failure test.
parseServiceMethod(sm) ==
    LET d == FirstDot(sm, 1)
        dot == IF d = 0 THEN 0 ELSE d - 1
    IN  IF dot = 0
        THEN [ok |-> FALSE, service |-> <<>>, method |-> <<>>]
        ELSE [ok |-> TRUE,
              service |-> SubSeq(sm, 1, dot),
              method |-> SubSeq(sm, dot + 2, Len(sm))]

\* The error parseServiceMethod returns: an invalid_argument *Error in
\* package thor, a plain error in package pkg.
IllFormed(v, sm) ==
    IF v = "thor"
    THEN New(ErrorCodeInvalidArgument,
             <<"rpc: service/method request ill-formed: ">> \o sm)
    ELSE Errorf(<<"rpc: service/method request ill-formed: ">> \o sm)

\* isExported: the first rune is an upper-case letter.
isExported(name) == Len(name) > 0 /\ name[1] \in {"A", "B"}

\* ---------------------------------------------------------------- register
\* Values handed to Register / RegisterName: ptr is whether the value is a
\* non-nil pointer, typeName the name of the pointed-to type, methods the
\* names of its methods with a qualifying signature.
Services ==
    { [id |-> 1, ptr |-> TRUE, typeName |-> <<"A">>, methods |-> {<<"B">>}],
      [id |-> 2, ptr |-> TRUE, typeName |-> <<"A">>,
       methods |-> {<<"A">>, <<"B">>}],
      [id |-> 3, ptr |-> FALSE, typeName |-> <<"A">>, methods |-> {<<"B">>}],
      [id |-> 4, ptr |-> TRUE, typeName |-> <<"A">>, methods |-> {}],
      [id |-> 5, ptr |-> TRUE, typeName |-> <<"a">>, methods |-> {<<"B">>}] }

\* The names RegisterName is given; Register passes "".
RegisterNames == {<<>>, <<"A">>}

\* The error of a registration under a name already in serviceMap.
AlreadyRegistered(name) ==
    Errorf(<<"service ">> \o name \o <<" already registered">>)

\* The value and name pass every check register makes before it looks at
\* serviceMap.
ValidService(svc, name) ==
    LET serviceName == IF name = <<>> THEN svc.typeName ELSE name
    IN  svc.ptr /\ isExported(serviceName) /\ svc.methods # {}

\* The error of register for a value or a name it refuses: package thor
\* builds it with errors.New of the error model, package pkg with
\* errors.New of the standard library.
registerRefusal(v, message) ==
    IF v = "thor" THEN New(ErrorCodeInvalidArgument, message)
    ELSE Errorf(message)

\* register, under s.mu: what it returns and the serviceMap it leaves.
registerResult(v, svc, name, isClosed, map) ==
    LET serviceName == IF name = <<>> THEN svc.typeName ELSE name
        same == [ret |-> NilError, map |-> map]
    IN  IF isClosed THEN [same EXCEPT !.ret = ServerClosedError]
        ELSE IF ~svc.ptr
        THEN [same EXCEPT !.ret = registerRefusal(v,
                                 <<"service must be a non-nil pointer">>)]
        ELSE IF serviceName = <<>>
        THEN [same EXCEPT !.ret = registerRefusal(v,
                                 <<"service name cannot be empty">>)]
        ELSE IF ~isExported(serviceName)
        THEN [same EXCEPT !.ret = Errorf(<<"service ">> \o serviceName
                                         \o <<" is not exported">>)]
        ELSE IF svc.methods = {}
        THEN [same EXCEPT !.ret = Errorf(<<"service ">> \o serviceName
                                         \o <<" has no exported methods">>)]
        ELSE IF serviceName \in DOMAIN map
        THEN [same EXCEPT !.ret = AlreadyRegistered(serviceName)]
        ELSE [ret |-> NilError, map |-> (serviceName :> svc) @@ map]

\* ---------------------------------------------------------------- middleware chains
\* Use appends; the middlewares are named by their place of registration.
MaxMiddlewares == 3

\* The chain the loop
\*     for i := len(mws) - 1; i >= 0; i-- { handler = mws[i](handler) }
\* builds around the innermost handler, outermost first.
RECURSIVE WrapInnerFirst(_, _, _)
WrapInnerFirst(mws, i, nest) ==
    IF i = 0 THEN nest
    ELSE WrapInnerFirst(mws, i - 1, nest \o <<mws[i]>>)

RECURSIVE Wrap(_, _, _)
Wrap(mws, i, nest) ==
    IF i = 0 THEN nest
    ELSE Wrap(mws, i - 1, <<mws[i]>> \o nest)

\* The chain a call runs through.  DefaultServer.handleRequest and
\* DefaultClient.send of package thor call the innermost handler directly.
ServerChain(v, mws) == IF v = "pkg" THEN Wrap(mws, Len(mws), <<>>) ELSE <<>>
ClientChain(v, mws) ==
    IF v \in {"pkg", "simple"} THEN Wrap(mws, Len(mws), <<>>) ELSE <<>>

\* The events of one run of handler(ctx, req) from the k-th middleware of
\* the chain on.  A middleware either calls next once and returns what it
\* returned, or returns its own error without calling next (`stop` names
\* the one that does, 0 when none does).
RECURSIVE Invoke(_, _, _)
Invoke(nest, k, stop) ==
    IF k > Len(nest) THEN << [ev |-> "handler", m |-> 0] >>
    ELSE << [ev |-> "enter", m |-> nest[k]] >>
         \o (IF stop = k THEN <<>> ELSE Invoke(nest, k + 1, stop))
         \o << [ev |-> "exit", m |-> nest[k]] >>

\* The error of a middleware that does not call next.
MiddlewareError == Errorf(<<"rejected by middleware">>)

\* ---------------------------------------------------------------- envelopes
\* The bytes s.codec.Marshal makes of a reply value.
EncodedReply == <<"reply">>

Envelope(sm, sq, err, payload, reply) ==
    [produced |-> TRUE, ServiceMethod |-> sm, Seq |-> sq, Error |-> err,
     Payload |-> payload, Reply |-> reply]

\* The response the frame handler of package thor builds when
\* handleRequest returns an error.
ErrorResponseSeqDropped(sm, sq, err) == Envelope(sm, 0, err, <<>>, <<>>)
ErrorResponse(sm, sq, err) == Envelope(sm, sq, err, <<>>, <<>>)

NoEnvelope ==
    [produced |-> FALSE, ServiceMethod |-> <<>>, Seq |-> 0, Error |-> <<>>,
     Payload |-> <<>>, Reply |-> <<>>]

\* What can go wrong while one request is handled: nothing, the frame does
\* not decode, the arguments do not decode, the method returns an error,
\* returns an error whose Error() is "", panics, or the reply does not
\* marshal.
Behaviours ==
    {"ok", "undecodable", "badargs", "error", "emptyError", "panic",
     "badreply"}

\* The error a service method returns.
MethodError(beh) ==
    IF beh = "emptyError" THEN Errorf(<<>>) ELSE Errorf(<<"method failed">>)

\* The routes called, with services "A" (methods "B", or "A" and "B")
\* registered or not.
Routes ==
    { <<"A", ".", "B">>, <<"A", ".", "A">>, <<"B", ".", "B">>, <<"A">>,
      <<"A", ".">> }

\* s.serviceMap.Load(service) and svc.method[method] both succeed.
Routed(map, r) ==
    /\ r.service \in DOMAIN map
    /\ r.method \in map[r.service].methods

\* ---------------------------------------------------------------- thor: handleRequest
\* The innermost handler of DefaultServer.handleRequest, called directly:
\* a response, an error, or a panic of the method passing through call.
thorHandleRequest(sm, sq, beh, map) ==
    LET r == parseServiceMethod(sm)
        none == [panic |-> FALSE, invoked |-> FALSE, err |-> NilError,
                 resp |-> NoEnvelope, trace |-> <<>>]
    IN  IF ~r.ok THEN [none EXCEPT !.err = IllFormed("thor", sm)]
        ELSE IF r.service \notin DOMAIN map
        THEN [none EXCEPT !.err = ErrServiceNotFound]
        ELSE IF r.method \notin map[r.service].methods
        THEN [none EXCEPT !.err = ErrMethodNotFound]
        ELSE IF beh = "badargs"
        THEN [none EXCEPT !.err = Errorf(<<"unmarshal args: ">>)]
        ELSE LET ran == [none EXCEPT !.invoked = TRUE,
                                     !.trace = Invoke(<<>>, 1, 0)]
             IN  IF beh = "panic" THEN [ran EXCEPT !.panic = TRUE]
                 ELSE IF beh \in {"error", "emptyError"}
                 THEN [ran EXCEPT !.err = MethodError(beh)]
                 ELSE IF beh = "badreply"
                 THEN [ran EXCEPT !.err = Errorf(<<"marshal reply: ">>)]
                 ELSE [ran EXCEPT !.resp = Envelope(sm, sq, <<>>,
                                              EncodedReply, EncodedReply)]

\* The frame handler of DefaultServer.Serve (package thor): the response
\* it returns and whether it returns a handler error.  jsonCodec.Marshal of
\* a Response does not fail.
thorFrameHandler(sm, sq, beh, map) ==
    IF beh = "undecodable"
    THEN [panic |-> FALSE, invoked |-> FALSE, herr |-> FALSE, trace |-> <<>>,
          resp |-> Envelope(<<>>, 0, <<"unmarshal request: ">>, <<>>, <<>>)]
    ELSE LET h == thorHandleRequest(sm, sq, beh, map)
             out == [panic |-> h.panic, invoked |-> h.invoked,
                     herr |-> FALSE, trace |-> h.trace, resp |-> NoEnvelope]
         IN  IF h.panic THEN out
             ELSE IF h.err.type # "nil"
             THEN [out EXCEPT !.resp =
                     ErrorResponse(sm, sq, ErrorString(h.err))]
             ELSE [out EXCEPT !.resp =
                     IF Len(h.resp.Reply) = 0 /\ Len(h.resp.Payload) > 0
                     THEN [h.resp EXCEPT !.Reply = h.resp.Payload]
                     ELSE IF Len(h.resp.Payload) = 0 /\ Len(h.resp.Reply) > 0
                     THEN [h.resp EXCEPT !.Payload = h.resp.Reply]
                     ELSE h.resp]

\* ---------------------------------------------------------------- pkg: handleRequest
\* DefaultServer.handleRequest of package pkg: the dispatch steps, then the
\* middleware chain around the method; every failure goes into resp.Error
\* and the function returns (resp, nil).
pkgHandleRequest(sm, sq, beh, map, mws, stop) ==
    LET r == parseServiceMethod(sm)
        base == Envelope(sm, sq, <<>>, <<>>, <<>>)
        none == [panic |-> FALSE, invoked |-> FALSE, herr |-> FALSE,
                 trace |-> <<>>, resp |-> base]
        nest == ServerChain("pkg", mws)
    IN  IF ~r.ok
        THEN [none EXCEPT !.resp.Error = ErrorString(IllFormed("pkg", sm))]
        ELSE IF r.service \notin DOMAIN map
        THEN [none EXCEPT !.resp.Error = ErrorString(ErrServiceNotFound)]
        ELSE IF r.method \notin map[r.service].methods
        THEN [none EXCEPT !.resp.Error = ErrorString(ErrMethodNotFound)]
        ELSE IF beh = "badargs"
        THEN [none EXCEPT !.resp.Error = <<"unmarshal argument: ">>]
        ELSE LET ran == [none EXCEPT !.trace = Invoke(nest, 1, stop),
                                     !.invoked = (stop = 0)]
             IN  IF stop # 0
                 THEN [ran EXCEPT !.resp.Error = ErrorString(MiddlewareError)]
                 ELSE IF beh = "panic"
                 THEN [ran EXCEPT !.panic = TRUE, !.resp = NoEnvelope]
                 ELSE IF beh \in {"error", "emptyError"}
                 THEN [ran EXCEPT !.resp.Error = ErrorString(MethodError(beh))]
                 ELSE IF beh = "badreply"
                 THEN [ran EXCEPT !.resp.Error = <<"marshal reply: ">>]
                 ELSE [ran EXCEPT !.resp.Payload = EncodedReply]

\* The frame handler of DefaultServer.Serve (package pkg).
pkgFrameHandler(sm, sq, beh, map, mws, stop) ==
    IF beh = "undecodable"
    THEN [panic |-> FALSE, invoked |-> FALSE, herr |-> FALSE, trace |-> <<>>,
          resp |-> Envelope(<<>>, 0, <<"unmarshal request: ">>, <<>>, <<>>)]
    ELSE pkgHandleRequest(sm, sq, beh, map, mws, stop)

ServeFrame(v, sm, sq, beh, map, mws, stop) ==
    IF v = "thor" THEN thorFrameHandler(sm, sq, beh, map)
    ELSE pkgFrameHandler(sm, sq, beh, map, mws, stop)

\* ---------------------------------------------------------------- the client's result
\* transport.Send against a server process that died: the read of the
\* response header fails.
TransportReadError == New(ErrorCodeUnknown, <<"failed to read header">>)

\* c.codec.Unmarshal(data, reply) succeeds on the bytes of an encoded reply.
ReplyDecodes(data) == data = EncodedReply

\* The error handleResponse (package thor) leaves in call.Error.
thorClientError(resp) ==
    IF resp.Error # <<>> THEN New(ErrorCodeUnknown, resp.Error)
    ELSE LET responseData == IF Len(resp.Reply) = 0 THEN resp.Payload
                             ELSE resp.Reply
         IN  IF ReplyDecodes(responseData) THEN NilError
             ELSE Errorf(<<"unmarshal reply: ">>)

\* The error the innermost handler of Go (package pkg) returns.
pkgClientError(resp) ==
    IF resp.Error # <<>> THEN New(resp.Error, resp.Error)
    ELSE IF ReplyDecodes(resp.Payload) THEN NilError
    ELSE Errorf(<<"unexpected end of JSON input">>)

ClientError(v, resp) ==
    IF v = "thor" THEN thorClientError(resp) ELSE pkgClientError(resp)

\* ---------------------------------------------------------------- the observed call
NoLast ==
    [kind |-> "none", route |-> <<>>, Seq |-> 0, beh |-> "ok",
     ncmw |-> 0, nsmw |-> 0, ctrace |-> <<>>, strace |-> <<>>,
     sent |-> FALSE, handled |-> FALSE, invoked |-> FALSE,
     panicked |-> FALSE, routed |-> FALSE, herr |-> FALSE,
     resp |-> NoEnvelope, returned |-> FALSE, cpanic |-> FALSE,
     err |-> NilError]

NoReg == [name |-> <<>>, svc |-> 0, valid |-> FALSE, open |-> FALSE,
          before |-> <<>>, ret |-> NilError, wins |-> 0, done |-> FALSE]

\* ---------------------------------------------------------------- Use
\* DefaultClient.Use / Client.Use: append to c.middlewares.
UseClient ==
    /\ impl \in Impls
    /\ Len(cmw) < MaxMiddlewares
    /\ cmw' = Append(cmw, Len(cmw) + 1)
    /\ UNCHANGED <<impl, smw, serviceMap, regRet, last, down>>

\* DefaultServer.Use: append to s.middlewares.
UseServer ==
    /\ impl \in {"thor", "pkg"}
    /\ Len(smw) < MaxMiddlewares
    /\ smw' = Append(smw, Len(smw) + 1)
    /\ UNCHANGED <<impl, cmw, serviceMap, regRet, last, down>>

\* ---------------------------------------------------------------- Register
\* Register(svc) / RegisterName(name, svc), the whole of register under
\* s.mu.
Register(svc, name) ==
    /\ impl \in {"thor", "pkg"}
    /\ LET out == registerResult(impl, svc, name, srv.closed, serviceMap)
       IN  /\ serviceMap' = out.map
           /\ regRet' = [name |-> IF name = <<>> THEN svc.typeName ELSE name,
                         svc |-> svc.id,
                         valid |-> ValidService(svc, name),
                         open |-> ~srv.closed,
                         before |-> serviceMap,
                         ret |-> out.ret,
                         wins |-> IF out.ret.type = "nil" THEN regRet.wins + 1
                                  ELSE regRet.wins,
                         done |-> TRUE]
    /\ UNCHANGED <<impl, cmw, smw, last, down>>

\* ---------------------------------------------------------------- Call
\* A Call of DefaultClient against DefaultServer, in the steps that other
\* goroutines and processes can come between.  last follows one call of
\* the client: "sent" once transport.Send has the request, "served" once
\* the server's frame handler has run on it, "call" once the caller has
\* its answer; "frame" is a frame of some other client handled by the
\* server.

\* The read of the response fails after its size header was read.
ResponseReadError == New(ErrorCodeUnknown, <<"failed to read response">>)

\* What transport.Send returns when the server does not answer, or not to
\* the end, on the stream transport: the dial, the write of the size
\* header, the write of the message, the read of the response header or
\* the read of the response fails.
NoAnswerErrors ==
    { New(ErrorCodeUnknown, <<"failed to dial">>),
      New(ErrorCodeUnknown, <<"failed to write header">>),
      New(ErrorCodeUnknown, <<"failed to write message">>),
      TransportReadError,
      ResponseReadError }

\* The caller is inside a call.
InCall == last.kind \in {"sent", "served"}

\* Call, Go and send up to transport.Send(ctx, "", reqData): the client
\* chain, then the request on its way.  The http transport builds the URL
\* "http://" + addr + basePath from the empty addr, and client.Do fails on
\* it.
Call(sm, sq, cstop) ==
    /\ impl \in {"thor", "pkg"}
    /\ ~InCall
    /\ LET cnest == ClientChain(impl, cmw)
           r == parseServiceMethod(sm)
           seen == [NoLast EXCEPT
                      !.route = sm, !.Seq = sq, !.ncmw = Len(cmw),
                      !.nsmw = Len(smw),
                      !.ctrace = Invoke(cnest, 1, cstop),
                      !.sent = (cstop = 0),
                      !.routed = r.ok /\ Routed(serviceMap, r)]
       IN  /\ cstop \in 0..Len(cnest)
           /\ last' = IF cstop # 0
                      THEN [seen EXCEPT !.kind = "call", !.returned = TRUE,
                                        !.err = MiddlewareError]
                      ELSE IF tpt.kind = "http"
                      THEN [seen EXCEPT !.kind = "call", !.returned = TRUE,
                               !.err = New(ErrorCodeUnknown,
                                           <<"failed to do request">>)]
                      ELSE [seen EXCEPT !.kind = "sent"]
    /\ UNCHANGED <<impl, cmw, smw, serviceMap, regRet, down>>

\* What the frame handler leaves in the record of a request.
Handled(rec, beh, out) ==
    [rec EXCEPT !.beh = beh, !.handled = TRUE, !.strace = out.trace,
                !.invoked = out.invoked, !.panicked = out.panic,
                !.herr = out.herr, !.resp = out.resp]

\* A panic of the method unwinds the goroutine that runs the frame
\* handler.  handleConn of the stream transport has no recover and the
\* server process ends; net/http recovers the panic of a handler, closes
\* that connection and keeps serving.
EndsProcess(out) == out.panic /\ tpt.kind = "tcp"

\* The server's frame handler on the request of the call, in the
\* goroutine of its connection.
HandleFrame(beh, sstop) ==
    /\ last.kind = "sent"
    /\ ~down
    /\ sstop \in 0..Len(ServerChain(impl, smw))
    /\ LET out == ServeFrame(impl, last.route, last.Seq, beh, serviceMap,
                             smw, sstop)
       IN  /\ last' = [Handled(last, beh, out) EXCEPT !.kind = "served"]
           /\ down' = EndsProcess(out)
    /\ UNCHANGED <<impl, cmw, smw, serviceMap, regRet>>

\* The frame handler on a frame of another client, in the goroutine of
\* that client's connection: recorded when the client followed here is in
\* no call, and for the call in flight it is what it does to the process.
HandleForeign(sm, sq, beh, sstop) ==
    /\ impl \in {"thor", "pkg"}
    /\ ~down
    /\ sstop \in 0..Len(ServerChain(impl, smw))
    /\ LET out == ServeFrame(impl, sm, sq, beh, serviceMap, smw, sstop)
           r == parseServiceMethod(sm)
           rec == [NoLast EXCEPT
                      !.kind = "frame", !.route = sm, !.Seq = sq,
                      !.ncmw = Len(cmw), !.nsmw = Len(smw),
                      !.routed = r.ok /\ Routed(serviceMap, r)]
       IN  /\ last' = IF InCall THEN last ELSE Handled(rec, beh, out)
           /\ down' = EndsProcess(out)
    /\ UNCHANGED <<impl, cmw, smw, serviceMap, regRet>>

\* The client's end of the call: transport.Send returns, and the response
\* goes through handleResponse (package thor), which completes the call
\* pending under resp.Seq, or through the innermost handler of Go (package
\* pkg).  A thor call whose response carries another seq is never
\* completed and its caller waits for ever.  Between the return of the
\* frame handler and the two writes of handleConn the server process can
\* end: the response the handler produced is then not written, or its
\* size header only, and Send fails at one of its two reads.
CallReturns(e) ==
    /\ InCall
    /\ e \in NoAnswerErrors
    /\ \/ /\ last.kind = "served" /\ last.resp.produced
          /\ impl = "thor" => last.resp.Seq = last.Seq
          /\ e = TransportReadError
          /\ last' = [last EXCEPT !.kind = "call", !.returned = TRUE,
                                  !.err = ClientError(impl, last.resp)]
       \/ /\ down
          /\ last.kind = "served" =>
                 e \in {TransportReadError, ResponseReadError}
          /\ e = ResponseReadError =>
                 last.kind = "served" /\ last.resp.produced
          /\ last' = [last EXCEPT !.kind = "call", !.returned = TRUE,
                                  !.err = e]
    /\ UNCHANGED <<impl, cmw, smw, serviceMap, regRet, down>>

\* ---------------------------------------------------------------- Client.Call
\* strings.Split(route, "."): the route has two parts when it has one '.'.
SplitRoute(route) ==
    LET dots == { i \in DOMAIN route : route[i] = "." }
    IN  IF Cardinality(dots) # 1
        THEN [ok |-> FALSE, service |-> <<>>, method |-> <<>>]
        ELSE LET d == CHOOSE i \in dots : TRUE
             IN  [ok |-> TRUE, service |-> SubSeq(route, 1, d - 1),
                  method |-> SubSeq(route, d + 1, Len(route))]

\* Client.Call of client.go: the route check, then the chain around
\* c.conn.Call, which fails or not, then *resp.(*interface{}) =
\* rpcCtx.Response, a type assertion that panics in the caller's goroutine
\* unless resp is a *interface{}.
SimpleCall(route, cstop, connFails, respIsPtr) ==
    /\ impl = "simple"
    /\ LET cnest == ClientChain(impl, cmw)
           seen == [NoLast EXCEPT !.kind = "call", !.route = route,
                                  !.ncmw = Len(cmw), !.returned = TRUE]
       IN  /\ cstop \in 0..Len(cnest)
           /\ IF ~SplitRoute(route).ok
              THEN last' = [seen EXCEPT
                              !.err = Errorf(<<"invalid route format: ">>
                                  \o route
                                  \o <<", expected ServiceName.MethodName">>)]
              ELSE LET ran == [seen EXCEPT
                                 !.ctrace = Invoke(cnest, 1, cstop),
                                 !.sent = (cstop = 0)]
                   IN  last' = IF cstop # 0
                               THEN [ran EXCEPT !.err = MiddlewareError]
                               ELSE IF connFails
                               THEN [ran EXCEPT
                                       !.err = Errorf(<<"conn.Call failed">>)]
                               ELSE IF ~respIsPtr
                               THEN [ran EXCEPT !.cpanic = TRUE,
                                                !.returned = FALSE]
                               ELSE ran
    /\ UNCHANGED <<impl, cmw, smw, serviceMap, regRet, down>>

\* ================================================================ the binary codec
\* Codec of codec/binary: Marshal and Unmarshal of request and response
\* envelopes.  A byte string is a sequence of runs [b |-> byte, n |-> count]
\* in which neighbouring runs differ in b, so that a text of 65536 bytes is
\* one run.

\* The characters of the routes handed to parseServiceMethod.
RouteChars == {"A", "B", "."}
MaxRouteLen == 3
RouteStrings == UNION { [1..n -> RouteChars] : n \in 0..MaxRouteLen }

\* Merge neighbouring runs of the same byte and drop empty runs.
RECURSIVE Norm(_)
Norm(t) ==
    IF Len(t) = 0 THEN <<>>
    ELSE IF t[1].n = 0 THEN Norm(Tail(t))
    ELSE IF Len(t) = 1 THEN t
    ELSE IF t[2].n = 0 THEN Norm(<<t[1]>> \o Tail(Tail(t)))
    ELSE IF t[1].b = t[2].b
    THEN Norm(<<[b |-> t[1].b, n |-> t[1].n + t[2].n]>> \o Tail(Tail(t)))
    ELSE <<t[1]>> \o Norm(Tail(t))

\* The byte string of the bytes q.
RECURSIVE Runs(_)
Runs(q) ==
    IF Len(q) = 0 THEN <<>>
    ELSE Norm(<<[b |-> q[1], n |-> 1]>> \o Runs(Tail(q)))

\* len(t).
RECURSIVE Size(_)
Size(t) == IF Len(t) = 0 THEN 0 ELSE t[1].n + Size(Tail(t))

\* The first k bytes of t, and the rest (k <= len(t)).
RECURSIVE Take(_, _)
Take(t, k) ==
    IF k = 0 \/ Len(t) = 0 THEN <<>>
    ELSE IF t[1].n >= k THEN <<[b |-> t[1].b, n |-> k]>>
    ELSE <<t[1]>> \o Take(Tail(t), k - t[1].n)

RECURSIVE Drop(_, _)
Drop(t, k) ==
    IF k = 0 \/ Len(t) = 0 THEN t
    ELSE IF t[1].n > k THEN <<[b |-> t[1].b, n |-> t[1].n - k]>> \o Tail(t)
    ELSE Drop(Tail(t), k - t[1].n)

\* The bytes of a short byte string, one by one.
RECURSIVE Explode(_)
Explode(t) ==
    IF Len(t) = 0 THEN <<>>
    ELSE IF t[1].n = 1 THEN <<t[1].b>> \o Explode(Tail(t))
    ELSE <<t[1].b>> \o Explode(<<[b |-> t[1].b, n |-> t[1].n - 1]>> \o Tail(t))

\* binary.Write(&buf, binary.BigEndian, x) of an unsigned integer of w
\* bytes, and binary.Read of one.
RECURSIVE BigEndian(_, _)
BigEndian(x, w) ==
    IF w = 0 THEN <<>> ELSE BigEndian(x \div 256, w - 1) \o <<x % 256>>

RECURSIVE FromBigEndian(_, _)
FromBigEndian(q, acc) ==
    IF Len(q) = 0 THEN acc ELSE FromBigEndian(Tail(q), acc * 256 + q[1])

\* ---------------------------------------------------------------- the frame layout
MagicNumber == 33396
Version == 1
TypeRequest == 1
TypeResponse == 2
EncodingJSON == 1
\* The header Unmarshal insists on: magic, version, type, encoding, seq.
MinFrameLen == 13
\* Marshal refuses a service method longer than this.
MaxServiceMethodLen == 255
\* uint16(len(msg.Error)) keeps the length modulo this.
ErrorLenModulus == 65536

\* The metadata maps: a nil map, an empty one and {"k": "v"}, and what the
\* inner JSON codec makes of them: null, {} and {"k":"v"}.
Metadatas == {"nil", "empty", "kv"}
JSONMetadata(md) ==
    IF md = "nil" THEN Runs(<<110, 117, 108, 108>>)
    ELSE IF md = "empty" THEN Runs(<<123, 125>>)
    ELSE Runs(<<123, 34, 107, 34, 58, 34, 118, 34, 125>>)

\* c.innerCodec.Unmarshal(metadataBytes, &metadata) into a fresh empty map;
\* with no bytes the fresh map stays.
ParseMetadata(bytes) ==
    IF Size(bytes) = 0 THEN "empty"
    ELSE IF \E md \in Metadatas : JSONMetadata(md) = bytes
    THEN CHOOSE md \in Metadatas : JSONMetadata(md) = bytes
    ELSE "bad"

\* A request or response value: Other is Args of a request and Reply of a
\* response; a request has no Error.
NoEnv ==
    [type |-> "none", ServiceMethod |-> <<>>, Seq |-> 0, Metadata |-> "nil",
     Error |-> <<>>, Payload |-> <<>>, Other |-> <<>>]

\* ---------------------------------------------------------------- Marshal
\* Codec.Marshal of a *Request or *Response: the frame, or an error.
Marshal(v) ==
    IF Size(v.ServiceMethod) > MaxServiceMethodLen
    THEN [ok |-> FALSE, data |-> <<>>]
    ELSE LET metadataBytes == JSONMetadata(v.Metadata)
             payloadBytes == IF Size(v.Payload) > 0 THEN v.Payload
                             ELSE IF Size(v.Other) > 0 THEN v.Other
                             ELSE <<>>
             head == Runs(BigEndian(MagicNumber, 2)
                          \o <<Version>>
                          \o <<IF v.type = "request" THEN TypeRequest
                               ELSE TypeResponse>>
                          \o <<EncodingJSON>>
                          \o BigEndian(v.Seq, 8)
                          \o <<Size(v.ServiceMethod)>>)
             errorPart == IF v.type = "request" THEN <<>>
                          ELSE Runs(BigEndian(Size(v.Error) % ErrorLenModulus, 2))
                               \o v.Error
         IN  [ok |-> TRUE,
              data |-> Norm(head \o v.ServiceMethod
                            \o Runs(BigEndian(Size(metadataBytes), 4))
                            \o metadataBytes
                            \o errorPart
                            \o Runs(BigEndian(Size(payloadBytes), 4))
                            \o payloadBytes)]

\* ---------------------------------------------------------------- Unmarshal
Max(a, b) == IF a >= b THEN a ELSE b

\* A header check that looks at the magic alone.
HeaderAcceptedMagicOnly(hdr) ==
    FromBigEndian(SubSeq(hdr, 1, 2), 0) = MagicNumber

\* The checks on the first bytes of a frame: magic and version.
HeaderAccepted(hdr) ==
    /\ FromBigEndian(SubSeq(hdr, 1, 2), 0) = MagicNumber
    /\ hdr[3] = Version

\* One run of Codec.Unmarshal(data, v): buf is bytes.NewBuffer(data) as far
\* as it is unread, dst is *v, the other fields are the locals (len the
\* length read last, bytes the slice filled last), alloc the largest length
\* handed to make([]byte, n) so far, and ret is "run" until a return.
UnmarshalStart(data, v) ==
    [buf |-> data, dst |-> v, ret |-> "run", alloc |-> 0, len |-> 0,
     bytes |-> <<>>, msgType |-> 0, seq |-> 0, serviceMethod |-> <<>>,
     metadata |-> "empty", errorMsg |-> <<>>, payload |-> <<>>]

\* return fmt.Errorf(...): the run ends with what it has done so far.
ReturnError(st) == [st EXCEPT !.ret = "error"]

\* binary.Read(buf, binary.BigEndian, &n) of an unsigned integer of w bytes.
ReadLength(st, w) ==
    IF Size(st.buf) < w THEN ReturnError(st)
    ELSE [st EXCEPT !.len = FromBigEndian(Explode(Take(st.buf, w)), 0),
                    !.buf = Drop(st.buf, w)]

\* b := make([]byte, n); io.ReadFull(buf, b) with n the length read last.
ReadFull(st) ==
    LET made == [st EXCEPT !.alloc = Max(@, st.len)]
    IN  IF Size(st.buf) < st.len THEN ReturnError(made)
        ELSE [made EXCEPT !.bytes = Take(st.buf, st.len),
                          !.buf = Drop(st.buf, st.len)]

\* One statement of Unmarshal on the run st.
Statement(s, st) ==
    CASE s = "header" ->
           IF Size(st.buf) < MinFrameLen THEN ReturnError(st)
           ELSE LET hdr == Explode(Take(st.buf, MinFrameLen))
                IN  IF ~HeaderAccepted(hdr) THEN ReturnError(st)
                    ELSE [st EXCEPT !.msgType = hdr[4],
                                    !.seq = FromBigEndian(SubSeq(hdr, 6, 13), 0),
                                    !.buf = Drop(st.buf, MinFrameLen)]
      [] s = "methodLen" -> ReadLength(st, 1)
      [] s = "serviceMethod" ->
           LET r == ReadFull(st) IN [r EXCEPT !.serviceMethod = r.bytes]
      [] s = "metadataLen" -> ReadLength(st, 4)
      [] s = "metadataBytes" -> ReadFull(st)
      [] s = "metadata" ->
           LET m == ParseMetadata(st.bytes)
           IN  IF m = "bad" THEN ReturnError(st) ELSE [st EXCEPT !.metadata = m]
      [] s = "isRequest" ->
           IF st.dst.type # "request" THEN ReturnError(st) ELSE st
      [] s = "isResponse" ->
           IF st.dst.type # "response" THEN ReturnError(st) ELSE st
      [] s = "errorLen" -> ReadLength(st, 2)
      [] s = "errorMsg" ->
           LET r == ReadFull(st) IN [r EXCEPT !.errorMsg = r.bytes]
      [] s = "payloadLen" -> ReadLength(st, 4)
      [] s = "payload" ->
           LET r == ReadFull(st) IN [r EXCEPT !.payload = r.bytes]
      [] s = "v.ServiceMethod" -> [st EXCEPT !.dst.ServiceMethod = st.serviceMethod]
      [] s = "v.Metadata" -> [st EXCEPT !.dst.Metadata = st.metadata]
      [] s = "v.Seq" -> [st EXCEPT !.dst.Seq = st.seq]
      [] s = "v.Error" -> [st EXCEPT !.dst.Error = st.errorMsg]
      [] s = "v.Payload" -> [st EXCEPT !.dst.Payload = st.payload]
      [] s = "v.Other" -> [st EXCEPT !.dst.Other = st.payload]
      [] s = "unsupported" -> ReturnError(st)

\* The statements up to the switch on the message type.
CommonPart ==
    <<"header", "methodLen", "serviceMethod", "metadataLen", "metadataBytes",
      "metadata">>

\* A request case that stores each field as soon as it has it.
RequestCaseEager ==
    <<"isRequest", "v.ServiceMethod", "v.Metadata", "v.Seq", "payloadLen",
      "payload", "v.Payload", "v.Other">>

\* case TypeRequest: the type assertion, the two reads, and then the block
\* of assignments to *req.
RequestCase ==
    <<"isRequest", "payloadLen", "payload", "v.ServiceMethod", "v.Metadata",
      "v.Seq", "v.Payload", "v.Other">>

\* case TypeResponse: the type assertion, the four reads, and then the
\* block of assignments to *resp.
ResponseCase ==
    <<"isResponse", "errorLen", "errorMsg", "payloadLen", "payload",
      "v.ServiceMethod", "v.Metadata", "v.Seq", "v.Error", "v.Payload",
      "v.Other">>

\* switch msgType.
Switch(msgType) ==
    IF msgType = TypeRequest THEN RequestCase
    ELSE IF msgType = TypeResponse THEN ResponseCase
    ELSE <<"unsupported">>

\* The statements in order, up to the first return.
RECURSIVE Execute(_, _)
Execute(stmts, st) ==
    IF Len(stmts) = 0 \/ st.ret # "run" THEN st
    ELSE Execute(Tail(stmts), Statement(Head(stmts), st))

\* err := Unmarshal(data, v) from its first statement to its return: ok is
\* err == nil and dst is *v afterwards.
UnmarshalRun(data, v) ==
    LET common == Execute(CommonPart, UnmarshalStart(data, v))
        end == Execute(Switch(common.msgType), common)
    IN  [ok |-> end.ret = "run", dst |-> end.dst, alloc |-> end.alloc]

\* *v after err := Unmarshal(data, v).
UnmarshalInto(data, v) == UnmarshalRun(data, v).dst

\* Codec.Unmarshal(data, v) with v a new *Request (want = "request") or
\* *Response: env is *v after a nil return.
Unmarshal(data, want) ==
    LET u == UnmarshalRun(data, [NoEnv EXCEPT !.type = want])
    IN  [ok |-> u.ok, env |-> IF u.ok THEN u.dst ELSE NoEnv, alloc |-> u.alloc]

\* A destination an earlier Unmarshal has filled.
UsedEnv(want) ==
    [type |-> want, ServiceMethod |-> Runs(<<88, 46, 89>>), Seq |-> 7,
     Metadata |-> "kv",
     Error |-> IF want = "response" THEN Runs(<<101>>) ELSE <<>>,
     Payload |-> Runs(<<113>>), Other |-> Runs(<<113>>)]

\* ---------------------------------------------------------------- pure functions applied
\* The envelopes handed to Marshal.
LongText == <<[b |-> 1, n |-> ErrorLenModulus]>>
Texts == {<<>>, Runs(<<101>>), LongText}
Blobs == {<<>>, Runs(<<112>>), Runs(<<113>>)}
Envelopes ==
    { [type |-> t, ServiceMethod |-> sm, Seq |-> sq, Metadata |-> md,
       Error |-> e, Payload |-> pl, Other |-> ot] :
        t \in {"request", "response"},
        sm \in {<<>>, Runs(<<65, 46, 66>>),
                 <<[b |-> 65, n |-> MaxServiceMethodLen + 1]>>},
        sq \in {0, 1, 300},
        md \in Metadatas,
        e \in Texts,
        pl \in {<<>>, Runs(<<112>>)},
        ot \in Blobs }

\* The largest frame a deployment is configured to accept.
MaxMessageSize == 64

\* A declared length far beyond the bytes that follow it.
HugeLen == 16777215

\* Frames as a peer may send them: any magic, version and type, an empty
\* or a three-byte service method, lengths that are honest or not, cut
\* after any number of bytes.  decl is the largest length the frame
\* declares.
RawFrame(magic, version, msgType, sm, mdDecl, plDecl, body) ==
    Norm(Runs(BigEndian(magic, 2) \o <<version, msgType, EncodingJSON>>
              \o BigEndian(1, 8) \o <<Size(sm)>>)
         \o sm
         \o Runs(BigEndian(mdDecl, 4)) \o JSONMetadata("empty")
         \o (IF msgType = TypeResponse THEN Runs(BigEndian(0, 2)) ELSE <<>>)
         \o Runs(BigEndian(plDecl, 4)) \o body)

Bodies ==
    { [decl |-> 1, body |-> Runs(<<112>>)],
      [decl |-> HugeLen, body |-> Runs(<<112>>)],
      [decl |-> MaxMessageSize + 1,
       body |-> <<[b |-> 112, n |-> MaxMessageSize + 1]>>] }

\* context.Background() as the transport hands it to the frame handler: no
\* key is bound.
EmptyContext == <<>>

\* context.WithValue(ctx, key, value): the newest binding of a key wins.
WithValue(ctx, key, value) == (key :> value) @@ ctx

\* The entries of a metadata mapping; a nil map and an empty map have none.
Entries(md) == IF md = "kv" THEN {<<"k", "v">>} ELSE {}

\* jsonCodec.Unmarshal(message, &req) of a frame whose Metadata the client
\* marshalled from md: req starts as the zero Request and JSON null leaves
\* its Metadata nil.
FrameMetadata(md) == ParseMetadata(JSONMetadata(md))

\* The context the frame handler hands to handleRequest for a decoded
\* request with the given route and metadata.
frameContext(route, md) ==
    LET reqMd == FrameMetadata(md)
        withMd == IF reqMd # "nil"
                  THEN WithValue(EmptyContext, "metadata", <<reqMd>>)
                  ELSE EmptyContext
    IN  WithValue(withMd, "service_method", route)

\* A context.Context as far as its deadline goes: whether it has one, the
\* time it falls at (in seconds), and whether the client derived it with
\* context.WithTimeout rather than received it from the caller.
Background == [nil |-> FALSE, has |-> FALSE, at |-> 0, derived |-> FALSE]
NilContext == [Background EXCEPT !.nil = TRUE]

\* const DefaultTimeout = 10 * time.Second
DefaultTimeout == 10
MaxDeadline == 12       \* latest deadline a caller sets
MaxClock == 2           \* latest time at which a request is sent

\* The contexts a caller passes to Go: nil, one without a deadline, one with
\* a deadline.
CallerContexts ==
    { NilContext, Background }
    \cup { [Background EXCEPT !.has = TRUE, !.at = d] : d \in 1..MaxDeadline }

\* context.ContextWithTimeout(parent, d) at time now: the earlier of the parent's
\* deadline and now + d.
ContextWithTimeout(parent, d, now) ==
    [nil |-> FALSE, has |-> TRUE,
     at |-> IF parent.has /\ parent.at < now + d THEN parent.at ELSE now + d,
     derived |-> TRUE]

\* The ctx that send hands to c.transport.Send (thor).
thorSendContext(callCtx, now) ==
    LET ctx == IF callCtx.nil THEN Background ELSE callCtx
    IN  IF ~ctx.has THEN ContextWithTimeout(ctx, DefaultTimeout, now) ELSE ctx

\* The ctx that the terminal handler of Go hands to c.transport.Send (pkg).
pkgSendContext(callCtx, now) == callCtx

\* ---------------------------------------------------------- error chains
\* An error value with its cause chain: the sequence of its links, outermost
\* first; the nil error is the empty sequence.  A link is an *Error (type
\* "Error") or an error of another package (type "plain"); obj tells apart
\* links that separate New, Wrap or fmt.Errorf calls made with equal
\* arguments.  A link together with the links under it stands for the
\* pointer to it.
NilChain == <<>>
Link(type, code, message, obj) ==
    [type |-> type, Code |-> code, Message |-> message, obj |-> obj]

\* (*Error).Unwrap: e.Cause.
Unwrap(err) == Tail(err)

\* New(code, message) as the obj-th such value.
errorsNew(code, message, obj) == <<Link("Error", code, message, obj)>>

\* Wrap(code, err, message) as the obj-th such value.
errorsWrap(code, err, message, obj) ==
    IF err = NilChain THEN NilChain
    ELSE <<Link("Error", code, message, obj)>> \o err

\* errors.Is(err, target): err == target for err and each error reached by
\* Unwrap; neither link type has an Is method.
RECURSIVE errorsIs(_, _)
errorsIs(err, target) ==
    IF err = NilChain \/ target = NilChain THEN err = target
    ELSE IF err = target THEN TRUE
    ELSE IF Unwrap(err) = NilChain THEN FALSE
    ELSE errorsIs(Unwrap(err), target)

\* errors.As(err, &e) with e a *Error: the first *Error along the chain,
\* NilChain when there is none.
RECURSIVE errorsAs(_)
errorsAs(err) ==
    IF err = NilChain THEN NilChain
    ELSE IF Head(err).type = "Error" THEN err
    ELSE errorsAs(Unwrap(err))

\* Code(err) taken from the deepest *Error instead of the first.
RECURSIVE errorsCodeInnermost(_)
errorsCodeInnermost(err) ==
    IF err = NilChain THEN ErrorCodeUnknown
    ELSE LET below == errorsCodeInnermost(Unwrap(err))
         IN  IF Head(err).type = "Error"
                /\ errorsAs(Unwrap(err)) = NilChain
             THEN Head(err).Code ELSE below

\* Code(err).
errorsCode(err) ==
    LET e == errorsAs(err)
    IN  IF e # NilChain THEN Head(e).Code ELSE ErrorCodeUnknown

MaxWrapDepth == 2       \* nested Wrap calls over a base error
\* Tags of separate values built with equal arguments.
Objects == {"a", "b"}

\* Base errors: the sentinels ErrTimeout and ErrServiceNotFound, other New
\* values with a sentinel's code and message, and errors of other packages.
BaseErrors ==
    { errorsNew(ErrorCodeTimeout, <<"timeout">>, o) : o \in Objects }
    \cup { errorsNew(ErrorCodeNotFound, <<"service not found">>, "a"),
           <<Link("plain", <<>>, <<"boom">>, "a")>> }

RECURSIVE WrappedTo(_)
WrappedTo(depth) ==
    IF depth = 0 THEN BaseErrors
    ELSE LET under == WrappedTo(depth - 1)
         IN  under \cup
             { errorsWrap(c, e, <<"context">>, o) :
                 c \in {ErrorCodeUnknown, ErrorCodeDeadlineExceeded},
                 e \in under, o \in Objects }

ErrorChains == WrappedTo(MaxWrapDepth)

\* timeoutCtx.Err() when next returns: nil, context.Canceled or
\* context.DeadlineExceeded.
ContextErrs == {"nil", "canceled", "deadline"}

\* The error returned by the handler of timeout.WithTimeout(timeout)(next)
\* when next returns err and timeoutCtx.Err() is ctxErr.
WithTimeout(err, ctxErr) ==
    IF err # NilChain /\ ctxErr = "deadline"
    THEN errorsNew(ErrorCodeDeadlineExceeded, <<"RPC timeout">>, "fresh")
    ELSE err

NoIn == [fn |-> "none", route |-> <<>>, env |-> NoEnv, data |-> <<>>,
         want |-> "request", cut |-> FALSE, decl |-> 0, md |-> "nil",
         impl |-> "thor", cctx |-> Background, now |-> 0,
         err |-> NilChain, target |-> NilChain, ctxErr |-> "nil",
         dst |-> NoEnv]
NoOut == [done |-> FALSE, ok |-> FALSE, service |-> <<>>, method |-> <<>>,
          env |-> NoEnv, alloc |-> 0, ctx |-> EmptyContext,
          sctx |-> Background, err |-> NilChain, is |-> FALSE,
          code |-> <<>>, dst |-> NoEnv]

\* Frames with a metadata length that is honest, one byte short (the
\* metadata bytes then do not decode) or far too large, decoded into a
\* fresh destination or one that holds an earlier message.
UnmarshalInputs ==
    { LET full == RawFrame(magic, version, msgType, Runs(<<65, 46, 66>>),
                           mdDecl, pl.decl, pl.body)
          k == IF cut = 0 THEN Size(full) ELSE cut - 1
      IN  [NoIn EXCEPT !.fn = "unmarshal", !.data = Take(full, k),
                       !.want = want, !.cut = (cut # 0),
                       !.dst = IF used THEN UsedEnv(want)
                               ELSE [NoEnv EXCEPT !.type = want]] :
        magic \in {MagicNumber, 4660},
        version \in {Version, Version + 1},
        msgType \in {0, TypeRequest, TypeResponse},
        mdDecl \in {Size(JSONMetadata("empty")),
                    Size(JSONMetadata("empty")) - 1, HugeLen},
        pl \in Bodies,
        cut \in {0, 1, MinFrameLen},
        want \in {"request", "response"},
        used \in BOOLEAN }

DecodeInputs ==
    { LET full == RawFrame(magic, version, msgType, sm, mdDecl, pl.decl,
                           pl.body)
          k == IF cut = 0 THEN Size(full) ELSE cut - 1
      IN  [NoIn EXCEPT !.fn = "decode", !.data = Take(full, k),
                       !.want = want, !.cut = (cut # 0),
                       !.decl = Max(mdDecl, pl.decl)] :
        magic \in {MagicNumber, 4660},
        version \in {Version, Version + 1},
        msgType \in {0, TypeRequest, TypeResponse, TypeResponse + 1},
        sm \in {<<>>, Runs(<<65, 46, 66>>)},
        mdDecl \in {Size(JSONMetadata("empty")), HugeLen},
        pl \in Bodies,
        cut \in {0, 1, 4, MinFrameLen},
        want \in {"request", "response"} }

FnInputs ==
    { [NoIn EXCEPT !.fn = "parse", !.route = r] : r \in RouteStrings }
    \cup { [NoIn EXCEPT !.fn = "codec", !.env = v] :
             v \in { e \in Envelopes : e.type = "request" => e.Error = <<>> } }
    \cup DecodeInputs
    \cup UnmarshalInputs
    \cup { [NoIn EXCEPT !.fn = "context", !.route = r, !.md = md] :
             r \in Routes, md \in Metadatas }
    \cup { [NoIn EXCEPT !.fn = "sendctx", !.impl = v, !.cctx = c, !.now = t] :
             v \in {"thor", "pkg"}, c \in CallerContexts, t \in 0..MaxClock }
    \cup { [NoIn EXCEPT !.fn = "timeout", !.err = e, !.ctxErr = x] :
             e \in ErrorChains \cup {NilChain}, x \in ContextErrs }
    \cup { [NoIn EXCEPT !.fn = "errors", !.err = e, !.target = s] :
             e \in ErrorChains \cup {NilChain},
             s \in WrappedTo(MaxWrapDepth - 1) }
    \cup { [NoIn EXCEPT !.fn = "errors", !.err = e, !.target = e] :
             e \in ErrorChains }

\* parseServiceMethod(fin.route).
ParseRoute ==
    /\ fin.fn = "parse"
    /\ ~fout.done
    /\ LET r == parseServiceMethod(fin.route)
       IN  fout' = [NoOut EXCEPT !.done = TRUE, !.ok = r.ok,
                                 !.service = r.service, !.method = r.method]
    /\ UNCHANGED fin

\* data, err := Marshal(v); err = Unmarshal(data, &v2) into an empty value
\* of the same type.
RoundTrip ==
    /\ fin.fn = "codec"
    /\ ~fout.done
    /\ LET m == Marshal(fin.env)
           u == IF m.ok THEN Unmarshal(m.data, fin.env.type)
                ELSE [ok |-> FALSE, env |-> NoEnv, alloc |-> 0]
       IN  fout' = [NoOut EXCEPT !.done = TRUE, !.ok = m.ok /\ u.ok,
                                 !.env = u.env, !.alloc = u.alloc]
    /\ UNCHANGED fin

\* The frame handler of Serve up to its call of handleRequest, on a frame
\* that decodes to a request with route fin.route and metadata fin.md.
FrameContext ==
    /\ fin.fn = "context"
    /\ ~fout.done
    /\ fout' = [NoOut EXCEPT !.done = TRUE, !.ok = TRUE,
                             !.ctx = frameContext(fin.route, fin.md)]
    /\ UNCHANGED fin

\* The client's path from Go(ctx, ...) to c.transport.Send(ctx, "", reqData)
\* with no marshalling failure, the request being sent at time fin.now.
SendContext ==
    /\ fin.fn = "sendctx"
    /\ ~fout.done
    /\ fout' = [NoOut EXCEPT
                  !.done = TRUE, !.ok = TRUE,
                  !.sctx = IF fin.impl = "thor"
                           THEN thorSendContext(fin.cctx, fin.now)
                           ELSE pkgSendContext(fin.cctx, fin.now)]
    /\ UNCHANGED fin

\* _, err := timeout.WithTimeout(d)(next)(ctx, req) with next returning
\* fin.err.
TimeoutHandler ==
    /\ fin.fn = "timeout"
    /\ ~fout.done
    /\ LET out == WithTimeout(fin.err, fin.ctxErr)
       IN  fout' = [NoOut EXCEPT !.done = TRUE, !.ok = (out = NilChain),
                                 !.err = out, !.is = errorsIs(out, fin.err),
                                 !.code = errorsCode(out)]
    /\ UNCHANGED fin

\* errors.Is(fin.err, fin.target), errors.Code(fin.err) and
\* errors.Wrap(code, fin.err, message).
ErrorsApply ==
    /\ fin.fn = "errors"
    /\ ~fout.done
    /\ fout' = [NoOut EXCEPT
                  !.done = TRUE,
                  !.is = errorsIs(fin.err, fin.target),
                  !.code = errorsCode(fin.err),
                  !.err = errorsWrap(ErrorCodeUnknown, fin.err, <<"context">>, "fresh")]
    /\ UNCHANGED fin

\* err := Unmarshal(fin.data, v) with v an empty *Request or *Response.
Decode ==
    /\ fin.fn = "decode"
    /\ ~fout.done
    /\ LET u == Unmarshal(fin.data, fin.want)
       IN  fout' = [NoOut EXCEPT !.done = TRUE, !.ok = u.ok, !.env = u.env,
                                 !.alloc = u.alloc]
    /\ UNCHANGED fin

\* err := Unmarshal(fin.data, v) with v the destination fin.dst; fout.dst
\* is *v afterwards.
DecodeInto ==
    /\ fin.fn = "unmarshal"
    /\ ~fout.done
    /\ LET u == UnmarshalRun(fin.data, fin.dst)
       IN  fout' = [NoOut EXCEPT !.done = TRUE, !.ok = u.ok,
                                 !.alloc = u.alloc, !.dst = u.dst]
    /\ UNCHANGED fin

\* ================================================================ transports
\* The tcp Transport (a cache of one connection per target, a listener, a
\* closed flag), the udp Transport (t.conn, a closed flag) and the http
\* Transport (t.server, no closed flag), used by concurrent goroutines.
Kinds == {"tcp", "udp", "http"}
Senders == 1..MaxSenders
Closers == 1..MaxTransportCloses
ConnIds == 1..MaxSenders

ErrorCodeCancelled == <<"cancelled">>
WrapUnknown(message) == New(ErrorCodeUnknown, <<message>>)
HTTPServerClosed == Errorf(<<"http: Server closed">>)

\* What travels on a connection: the 4-byte size header of a frame and the
\* frame, each written by one conn.Write; id names the Send whose request
\* it is (or answers), 0 when header and frame did not belong together.
NoToken == [k |-> "none", id |-> 0, big |-> FALSE]
Token(k, id, big) == [k |-> k, id |-> id, big |-> big]

\* A connection: state is the client's end, peer is where the server's
\* handleConn stands on it ("hdr" and "msg" at its two reads, "whdr" and
\* "wresp" at its two writes, "gone" once it returned and its deferred
\* conn.Close() ran), held is what handleConn carries between steps.
NoConn ==
    [state |-> "unused", c2s |-> <<>>, s2c |-> <<>>, peer |-> "hdr",
     held |-> NoToken]
IdleSender ==
    [pc |-> "idle", conn |-> 0, began |-> FALSE, after |-> FALSE,
     net |-> FALSE, ret |-> NilError, got |-> 0, hdr |-> NoToken,
     cut |-> FALSE]
IdleListener ==
    [pc |-> "idle", after |-> FALSE, net |-> FALSE, fault |-> FALSE,
     ret |-> NilError]
IdleCloser ==
    [pc |-> "idle", after |-> FALSE, changed |-> FALSE, ret |-> NilError]

NewTransport(kind) ==
    [kind |-> kind, closed |-> FALSE, listener |-> "nil", cached |-> 0,
     nconn |-> 0]

\* Some Close has returned.
CloseReturned == \E q \in Closers : cls[q].pc = "done"

SenderReturns(p, err) ==
    snd' = [snd EXCEPT ![p].pc = "done", ![p].ret = err]

\* A conn.Write or io.ReadFull of Send has failed: err is what Send will
\* return once it has dropped the connection.
Failed(p, err) ==
    snd' = [snd EXCEPT ![p].pc = "evict", ![p].began = TRUE,
                       ![p].net = TRUE, ![p].ret = err]

\* t.mu.Lock(); delete(t.conns, targetAddr); t.mu.Unlock(): whatever is
\* cached for the target goes, this Send's connection or another's.
Evict(p) ==
    /\ snd[p].pc = "evict"
    /\ tpt' = [tpt EXCEPT !.cached = 0]
    /\ snd' = [snd EXCEPT ![p].pc = "cclose"]
    /\ UNCHANGED <<lsn, cls, wire>>

\* conn.Close(); return nil, errors.Wrap(...).
EvictClose(p) ==
    /\ snd[p].pc = "cclose"
    /\ wire' = [wire EXCEPT ![snd[p].conn].state = "closed"]
    /\ snd' = [snd EXCEPT ![p].pc = "done"]
    /\ UNCHANGED <<tpt, lsn, cls>>

\* ---------------------------------------------------------------- tcp and udp Send
\* What is wrong with the arguments of a Send: the message is longer
\* than maxMsgSize, or neither addr nor t.target names a target.
StartFaults == {"none", "large", "target"}

\* Send: if t.closed { return nil, ErrServerClosed }, then the test of
\* len(message) and, on tcp, of the target address.
SendStart(p, fault) ==
    /\ tpt.kind \in {"tcp", "udp"}
    /\ fault = "target" => tpt.kind = "tcp"
    /\ snd[p].pc = "idle"
    /\ LET err == IF tpt.closed THEN ServerClosedError
                  ELSE IF fault = "large"
                  THEN New(ErrorCodeInvalidArgument, <<"message too large">>)
                  ELSE IF fault = "target"
                  THEN New(ErrorCodeInvalidArgument,
                           <<"target address is required">>)
                  ELSE NilError
       IN  snd' = [snd EXCEPT
              ![p].after = CloseReturned,
              ![p].pc = IF err # NilError THEN "done"
                        ELSE IF tpt.kind = "tcp" THEN "lookup" ELSE "udial",
              ![p].ret = err]
    /\ UNCHANGED <<tpt, lsn, cls, wire>>

\* conn, ok := t.conns[targetAddr] under the read lock.
SendLookup(p) ==
    /\ snd[p].pc = "lookup"
    /\ snd' = [snd EXCEPT ![p].conn = tpt.cached,
                          ![p].pc = IF tpt.cached # 0 THEN "wdl" ELSE "dial"]
    /\ UNCHANGED <<tpt, lsn, cls, wire>>

\* net.DialTimeout.
SendDial(p, fails) ==
    /\ snd[p].pc = "dial"
    /\ IF fails
       THEN /\ snd' = [snd EXCEPT ![p].pc = "done", ![p].net = TRUE,
                                  ![p].ret = WrapUnknown("failed to dial")]
            /\ UNCHANGED <<tpt, wire>>
       ELSE /\ tpt' = [tpt EXCEPT !.nconn = tpt.nconn + 1]
            /\ wire' = [wire EXCEPT ![tpt.nconn + 1].state = "open"]
            /\ snd' = [snd EXCEPT ![p].pc = "store", ![p].net = TRUE,
                                  ![p].conn = tpt.nconn + 1]
    /\ UNCHANGED <<lsn, cls>>

\* t.conns[targetAddr] = conn under the lock.
SendStore(p) ==
    /\ snd[p].pc = "store"
    /\ tpt' = [tpt EXCEPT !.cached = snd[p].conn]
    /\ snd' = [snd EXCEPT ![p].pc = "wdl"]
    /\ UNCHANGED <<lsn, cls, wire>>

\* The ctx.Done() check and conn.SetWriteDeadline, which fails on a
\* connection that was closed.
SendWriteDeadline(p, cancelled) ==
    /\ snd[p].pc = "wdl"
    /\ IF cancelled
       THEN SenderReturns(p, New(ErrorCodeCancelled, <<"context cancelled">>))
       ELSE IF wire[snd[p].conn].state = "closed"
       THEN SenderReturns(p, WrapUnknown("failed to set write deadline"))
       ELSE snd' = [snd EXCEPT ![p].pc = "whdr"]
    /\ UNCHANGED <<tpt, lsn, cls, wire>>

\* conn.Write(sizeHeader).
SendWriteHeader(p, fails) ==
    /\ snd[p].pc = "whdr"
    /\ IF fails \/ wire[snd[p].conn].state = "closed"
       THEN /\ Failed(p, WrapUnknown("failed to write header"))
            /\ UNCHANGED wire
       ELSE /\ wire' = [wire EXCEPT ![snd[p].conn].c2s =
                            Append(@, Token("hdr", p, FALSE))]
            /\ snd' = [snd EXCEPT ![p].pc = "wmsg", ![p].began = TRUE,
                                  ![p].net = TRUE]
    /\ UNCHANGED <<tpt, lsn, cls>>

\* conn.Write(message).
SendWriteMessage(p, fails) ==
    /\ snd[p].pc = "wmsg"
    /\ IF fails \/ wire[snd[p].conn].state = "closed"
       THEN /\ Failed(p, WrapUnknown("failed to write message"))
            /\ UNCHANGED wire
       ELSE /\ wire' = [wire EXCEPT ![snd[p].conn].c2s =
                            Append(@, Token("msg", p, FALSE))]
            /\ snd' = [snd EXCEPT ![p].pc = "rdl"]
    /\ UNCHANGED <<tpt, lsn, cls>>

\* conn.SetReadDeadline: its failure returns without touching the cache.
SendReadDeadline(p) ==
    /\ snd[p].pc = "rdl"
    /\ IF wire[snd[p].conn].state = "closed"
       THEN SenderReturns(p, WrapUnknown("failed to set read deadline"))
       ELSE snd' = [snd EXCEPT ![p].pc = "rhdr"]
    /\ UNCHANGED <<tpt, lsn, cls, wire>>

\* binary.BigEndian.Uint32(sizeHeader) > uint32(t.maxMsgSize) on the four
\* bytes read as token h: a size header holds the size the server wrote,
\* and the first bytes of anything else read as a size are any number,
\* above the limit (large) or not.
RespSizeTooLarge(h, large) == IF h.k = "rhdr" THEN h.big ELSE large

\* io.ReadFull(conn, sizeHeader), then the respSize > maxMsgSize test: a
\* read fails on a closed connection, on a reset or at the read deadline,
\* and otherwise waits for bytes.
SendReadHeader(p, fails, large) ==
    /\ snd[p].pc = "rhdr"
    /\ LET c == snd[p].conn IN
       IF fails \/ wire[c].state = "closed"
       THEN /\ Failed(p, WrapUnknown("failed to read header"))
            /\ UNCHANGED wire
       ELSE /\ wire[c].s2c # <<>>
            /\ wire' = [wire EXCEPT ![c].s2c = Tail(@)]
            /\ IF RespSizeTooLarge(Head(wire[c].s2c), large)
               THEN SenderReturns(p, New(ErrorCodeInvalidArgument,
                                         <<"response too large">>))
               ELSE snd' = [snd EXCEPT ![p].pc = "rresp",
                                       ![p].hdr = Head(wire[c].s2c)]
    /\ UNCHANGED <<tpt, lsn, cls>>

\* io.ReadFull(conn, resp); return resp, nil.  got is the Send whose
\* request the returned bytes answer.
SendReadResponse(p, fails) ==
    /\ snd[p].pc = "rresp"
    /\ LET c == snd[p].conn IN
       IF fails \/ wire[c].state = "closed"
       THEN /\ Failed(p, WrapUnknown("failed to read response"))
            /\ UNCHANGED wire
       ELSE /\ wire[c].s2c # <<>>
            /\ wire' = [wire EXCEPT ![c].s2c = Tail(@)]
            /\ LET h == snd[p].hdr
                   b == Head(wire[c].s2c)
               IN  snd' = [snd EXCEPT
                      ![p].pc = "done",
                      ![p].got = IF /\ h.k = "rhdr"
                                    /\ b.k \in {"resp", "etxt"}
                                    /\ b.id = h.id
                                 THEN b.id ELSE 0]
    /\ UNCHANGED <<tpt, lsn, cls>>

\* How the rest of a udp Send ends: at the ctx.Done() test, at
\* net.ResolveUDPAddr, at net.DialUDP, at conn.Write, or after the write.
UdpOutcomes == {"ctx", "resolve", "dial", "write", "sent"}

\* udp Send after the length test: every path returns an error, the last
\* one after the datagram went out.
UdpSendWrite(p, out) ==
    /\ snd[p].pc = "udial"
    /\ snd' = [snd EXCEPT
          ![p].pc = "done",
          ![p].net = out \in {"dial", "write", "sent"},
          ![p].ret =
              IF out = "ctx"
              THEN New(ErrorCodeCancelled, <<"context cancelled">>)
              ELSE IF out = "resolve"
              THEN WrapUnknown("failed to resolve address")
              ELSE IF out = "dial" THEN WrapUnknown("failed to dial")
              ELSE IF out = "write"
              THEN WrapUnknown("failed to write message")
              ELSE WrapUnknown("UDP is connectionless and does not support response handling in Send")]
    /\ UNCHANGED <<tpt, lsn, cls, wire>>

\* ---------------------------------------------------------------- the peer
\* handleConn of the server the connection leads to, one step for each
\* read and each write of a round of its loop.  Every return of handleConn
\* runs its deferred conn.Close().
\*
\* How the read of the size header ends: conn.SetReadDeadline or
\* io.ReadFull fails (the client closed, nothing came within readTimeout,
\* the network failed); the size read is above the server's maxMsgSize;
\* or the header is taken.
HeaderOutcomes == {"fail", "large", "ok"}

ServeReadHeader(c, out) ==
    /\ wire[c].state # "unused"
    /\ wire[c].peer = "hdr"
    /\ IF out = "fail"
       THEN wire' = [wire EXCEPT ![c].peer = "gone"]
       ELSE /\ wire[c].c2s # <<>>
            /\ wire' = [wire EXCEPT
                  ![c].c2s = Tail(@),
                  ![c].peer = IF out = "large" THEN "gone" ELSE "msg",
                  ![c].held = IF out = "large" THEN NoToken
                              ELSE Head(wire[c].c2s)]
    /\ UNCHANGED <<tpt, snd, lsn, cls>>

\* How the read of the message and the handler end: io.ReadFull fails;
\* the handler returns an error, whose text becomes the response; the
\* handler returns a response, longer than the client's maxMsgSize ("big")
\* or not.
MessageOutcomes == {"fail", "herr", "big", "ok"}

\* io.ReadFull(conn, message); resp, err := handler(ctx, message).  The
\* response answers Send id when header and message were that Send's.
ServeReadMessage(c, out) ==
    /\ wire[c].peer = "msg"
    /\ IF out = "fail"
       THEN wire' = [wire EXCEPT ![c].peer = "gone", ![c].held = NoToken]
       ELSE /\ wire[c].c2s # <<>>
            /\ LET h == wire[c].held
                   m == Head(wire[c].c2s)
                   id == IF h.k = "hdr" /\ m.k = "msg" /\ h.id = m.id
                         THEN m.id ELSE 0
               IN  wire' = [wire EXCEPT
                      ![c].c2s = Tail(@),
                      ![c].peer = "whdr",
                      ![c].held = Token(IF out = "herr" THEN "etxt" ELSE "resp",
                                        id, out = "big")]
    /\ UNCHANGED <<tpt, snd, lsn, cls>>

\* conn.SetWriteDeadline and conn.Write(sizeHeader).
ServeWriteHeader(c, fails) ==
    /\ wire[c].peer = "whdr"
    /\ wire' = IF fails
               THEN [wire EXCEPT ![c].peer = "gone", ![c].held = NoToken]
               ELSE [wire EXCEPT
                       ![c].peer = "wresp", ![c].held.big = FALSE,
                       ![c].s2c = Append(@, Token("rhdr", wire[c].held.id,
                                                  wire[c].held.big))]
    /\ UNCHANGED <<tpt, snd, lsn, cls>>

\* conn.Write(resp), and back to the top of the loop.
ServeWriteResponse(c, fails) ==
    /\ wire[c].peer = "wresp"
    /\ wire' = IF fails
               THEN [wire EXCEPT ![c].peer = "gone", ![c].held = NoToken]
               ELSE [wire EXCEPT ![c].peer = "hdr", ![c].held = NoToken,
                                 ![c].s2c = Append(@, wire[c].held)]
    /\ UNCHANGED <<tpt, snd, lsn, cls>>

\* ---------------------------------------------------------------- Listen
\* Listen: if t.closed { return ErrServerClosed }, then the address: tcp
\* wants addr or t.address, udp resolves addr.
ListenStart(badAddr) ==
    /\ tpt.kind \in {"tcp", "udp"}
    /\ lsn.pc = "idle"
    /\ lsn' = [lsn EXCEPT
          !.after = CloseReturned,
          !.pc = IF tpt.closed \/ badAddr THEN "done" ELSE "bind",
          !.fault = ~tpt.closed /\ badAddr,
          !.ret = IF tpt.closed THEN ServerClosedError
                  ELSE IF ~badAddr THEN NilError
                  ELSE IF tpt.kind = "tcp"
                  THEN New(ErrorCodeInvalidArgument,
                           <<"address is required">>)
                  ELSE WrapUnknown("failed to resolve address")]
    /\ UNCHANGED <<tpt, snd, cls, wire>>

\* How the binding ends: net.Listen or net.ListenUDP fails, or the socket
\* is bound.
BindOutcomes == {"listen", "bound"}

\* t.listener, err = net.Listen(...) (tcp); conn, err := net.ListenUDP(...)
\* and t.conn = conn (udp).
ListenBind(out) ==
    /\ lsn.pc = "bind"
    /\ IF out = "listen"
       THEN /\ lsn' = [lsn EXCEPT !.pc = "done", !.fault = TRUE,
                          !.net = TRUE,
                          !.ret = WrapUnknown("failed to listen")]
            /\ UNCHANGED tpt
       ELSE /\ tpt' = [tpt EXCEPT !.listener = "open"]
            /\ lsn' = [lsn EXCEPT !.net = TRUE,
                          !.pc = IF tpt.kind = "tcp" THEN "accept"
                                 ELSE "rbuf"]
    /\ UNCHANGED <<snd, cls, wire>>

\* conn.SetReadBuffer, then conn.SetWriteBuffer (udp): each fails when the
\* system refuses the size, and on a socket that Close has closed since
\* t.conn was set.
ListenBuffers(fails) ==
    /\ lsn.pc \in {"rbuf", "wbuf"}
    /\ lsn' = IF fails \/ tpt.listener = "closed"
              THEN [lsn EXCEPT
                      !.pc = "done",
                      !.fault = tpt.listener # "closed",
                      !.ret = WrapUnknown(IF lsn.pc = "rbuf"
                                          THEN "failed to set read buffer"
                                          ELSE "failed to set write buffer")]
              ELSE [lsn EXCEPT !.pc = IF lsn.pc = "rbuf" THEN "wbuf"
                                      ELSE "loop"]
    /\ UNCHANGED <<tpt, snd, cls, wire>>

\* t.listener.Accept() returning an error: it does when the listener was
\* closed, and when the network fails.  A connection accepted goes to a
\* goroutine of its own and the loop accepts again.
ListenAccept(fails) ==
    /\ lsn.pc = "accept"
    /\ fails \/ tpt.listener = "closed"
    /\ lsn' = [lsn EXCEPT !.pc = "done",
                          !.fault = ~tpt.closed /\ tpt.listener # "closed",
                          !.ret = IF tpt.closed THEN ServerClosedError
                                  ELSE WrapUnknown("failed to accept")]
    /\ UNCHANGED <<tpt, snd, cls, wire>>

\* udp Listen, top of the loop: if t.closed { return ErrServerClosed }.
UdpLoop ==
    /\ lsn.pc = "loop"
    /\ lsn' = IF tpt.closed
              THEN [lsn EXCEPT !.pc = "done", !.ret = ServerClosedError]
              ELSE [lsn EXCEPT !.pc = "rdl"]
    /\ UNCHANGED <<tpt, snd, cls, wire>>

\* conn.SetReadDeadline in the loop: it fails on a socket that Close has
\* closed since the test of t.closed.
UdpReadDeadline ==
    /\ lsn.pc = "rdl"
    /\ lsn' = IF tpt.listener = "closed"
              THEN [lsn EXCEPT !.pc = "done",
                       !.ret = WrapUnknown("failed to set read deadline")]
              ELSE [lsn EXCEPT !.pc = "read"]
    /\ UNCHANGED <<tpt, snd, cls, wire>>

\* conn.ReadFromUDP returning: with a datagram, which goes to a goroutine
\* of its own, or at the read deadline (both back to the top of the loop),
\* or with an error because the socket was closed or the network failed.
UdpReadOutcomes == {"again", "error"}

UdpRead(out) ==
    /\ lsn.pc = "read"
    /\ lsn' = IF tpt.closed
              THEN [lsn EXCEPT !.pc = "done", !.ret = ServerClosedError]
              ELSE IF out = "again" /\ tpt.listener # "closed"
              THEN [lsn EXCEPT !.pc = "loop"]
              ELSE [lsn EXCEPT !.pc = "done",
                       !.fault = tpt.listener # "closed",
                       !.ret = WrapUnknown("failed to read message")]
    /\ UNCHANGED <<tpt, snd, cls, wire>>

\* ---------------------------------------------------------------- Close
\* Close: if t.closed { return nil }.
CloseStart(q) ==
    /\ tpt.kind \in {"tcp", "udp"}
    /\ cls[q].pc = "idle"
    /\ cls' = [cls EXCEPT ![q].after = CloseReturned,
                          ![q].pc = IF tpt.closed THEN "done" ELSE "set"]
    /\ UNCHANGED <<tpt, snd, lsn, wire>>

\* t.closed = true.
CloseSet(q) ==
    /\ cls[q].pc = "set"
    /\ tpt' = [tpt EXCEPT !.closed = TRUE]
    /\ cls' = [cls EXCEPT ![q].pc = "listener",
                          ![q].changed = @ \/ ~tpt.closed]
    /\ UNCHANGED <<snd, lsn, wire>>

\* What closing a socket that is closed already returns.
ClosedTwiceError == Errorf(<<"use of closed network connection">>)

\* if t.listener != nil { t.listener.Close() } (tcp), whose error is
\* dropped; if t.conn != nil { return t.conn.Close() } (udp), which is an
\* error when another Close closed the socket first.
CloseListener(q) ==
    /\ cls[q].pc = "listener"
    /\ tpt' = [tpt EXCEPT !.listener = IF @ = "nil" THEN "nil" ELSE "closed"]
    /\ cls' = [cls EXCEPT
          ![q].pc = IF tpt.kind = "tcp" THEN "conns" ELSE "done",
          ![q].changed = @ \/ tpt.listener = "open",
          ![q].ret = IF tpt.kind = "udp" /\ tpt.listener = "closed"
                     THEN ClosedTwiceError ELSE @]
    /\ UNCHANGED <<snd, lsn, wire>>

\* Under the lock: close every cached connection, empty the cache.
CloseConns(q) ==
    /\ cls[q].pc = "conns"
    /\ tpt' = [tpt EXCEPT !.cached = 0]
    /\ wire' = IF tpt.cached = 0 THEN wire
               ELSE [wire EXCEPT ![tpt.cached].state = "closed"]
    /\ cls' = [cls EXCEPT ![q].pc = "done",
                          ![q].changed = @ \/ tpt.cached # 0]
    /\ UNCHANGED <<snd, lsn>>

\* ---------------------------------------------------------------- http
\* How an http Send begins: it ends at the test of len(message) or at
\* http.NewRequestWithContext, or has a request to send.
HttpOutcomes == {"large", "create", "ok"}

\* http Send up to t.client.Do: the request is built whether or not Close
\* was called.
HttpSend(p, out) ==
    /\ tpt.kind = "http"
    /\ snd[p].pc = "idle"
    /\ snd' = [snd EXCEPT
          ![p].pc = IF out = "ok" THEN "do" ELSE "done",
          ![p].after = CloseReturned,
          ![p].ret =
              IF out = "large"
              THEN New(ErrorCodeInvalidArgument, <<"message too large">>)
              ELSE IF out = "create"
              THEN WrapUnknown("failed to create request")
              ELSE NilError]
    /\ UNCHANGED <<tpt, lsn, cls, wire>>

\* How t.client.Do returns: with an error, with a status other than 200,
\* or with a response whose body is to be read.
DoOutcomes == {"do", "status", "ok"}

\* resp, err := t.client.Do(req) and the test of resp.StatusCode.
HttpDo(p, out) ==
    /\ snd[p].pc = "do"
    /\ snd' = [snd EXCEPT
          ![p].pc = IF out = "ok" THEN "body" ELSE "done",
          ![p].net = TRUE, ![p].began = TRUE,
          ![p].ret =
              IF out = "do" THEN WrapUnknown("failed to do request")
              ELSE IF out = "status"
              THEN New(ErrorCodeUnknown, <<"unexpected status code: ">>)
              ELSE NilError]
    /\ UNCHANGED <<tpt, lsn, cls, wire>>

\* How the read of the body ends: io.ReadAll fails, the body is longer
\* than maxMsgSize and the limiter cuts it, or the whole body is read.
BodyOutcomes == {"read", "cut", "ok"}

\* io.ReadAll(io.LimitReader(resp.Body, maxMsgSize)): a body cut at
\* maxMsgSize bytes is returned as the response, with no error; the test
\* of len(respBody) > t.maxMsgSize that follows is never true.
HttpReadBody(p, out) ==
    /\ snd[p].pc = "body"
    /\ snd' = [snd EXCEPT
          ![p].pc = "done",
          ![p].ret = IF out = "read"
                     THEN WrapUnknown("failed to read response")
                     ELSE NilError,
          ![p].got = IF out = "read" THEN 0 ELSE p,
          ![p].cut = out = "cut"]
    /\ UNCHANGED <<tpt, lsn, cls, wire>>

\* http Listen: t.server = &http.Server{...}; t.server.ListenAndServe().
HttpListen(fails) ==
    /\ tpt.kind = "http"
    /\ lsn.pc = "idle"
    /\ tpt' = [tpt EXCEPT !.listener = "open"]
    /\ lsn' = IF fails
              THEN [lsn EXCEPT !.pc = "done", !.after = CloseReturned,
                               !.net = TRUE, !.fault = TRUE,
                               !.ret = Errorf(<<"listen tcp: bind failed">>)]
              ELSE [lsn EXCEPT !.pc = "serve", !.after = CloseReturned,
                               !.net = TRUE]
    /\ UNCHANGED <<snd, cls, wire>>

\* ListenAndServe returning after the server was closed.
HttpServeReturns ==
    /\ lsn.pc = "serve"
    /\ tpt.listener = "closed"
    /\ lsn' = [lsn EXCEPT !.pc = "done", !.ret = HTTPServerClosed]
    /\ UNCHANGED <<tpt, snd, cls, wire>>

\* http Close: if t.server != nil { return t.server.Close() }.
HttpClose(q) ==
    /\ tpt.kind = "http"
    /\ cls[q].pc = "idle"
    /\ tpt' = [tpt EXCEPT !.listener = IF @ = "nil" THEN "nil" ELSE "closed"]
    /\ cls' = [cls EXCEPT ![q].pc = "done", ![q].after = CloseReturned,
                          ![q].changed = tpt.listener = "open"]
    /\ UNCHANGED <<snd, lsn, wire>>

\* ================================================================ discovery
\* The in-memory Discovery with one service name: d.services[name], the
\* channels Watch handed out, and the goroutines that carry snapshots to
\* them.
DiscAddrs == {"a"}
InstanceMetadata == {"m"}
Watchers == 1..MaxWatchers

\* make(chan []*ServiceInstance, 10)
WatchChanCap == 10

Instance(addr, md) == [Addr |-> addr, Metadata |-> md]

\* The instance lists a service can have: no address twice.
InstanceLists ==
    { l \in UNION { [1..n -> { Instance(a, m) : a \in DiscAddrs,
                                                m \in InstanceMetadata }] :
                    n \in 0..Cardinality(DiscAddrs) } :
        \A i, j \in DOMAIN l : l[i].Addr = l[j].Addr => i = j }

\* A watcher: on is whether Watch has returned its channel, ch the channel,
\* init the snapshot the goroutine started by Watch still holds, pend the
\* snapshots the goroutines started by notifyWatchers still hold, owed the
\* snapshots due (one on subscription and one per later change), nrecv
\* the snapshots read, dropped those given up after the second's wait,
\* last the one read last.
NoWatcher ==
    [on |-> FALSE, ch |-> <<>>, init |-> <<>>, pend |-> [l \in InstanceLists |-> 0],
     owed |-> 0, nrecv |-> 0, dropped |-> 0, last |-> <<>>]

IndexOf(list, addr) ==
    IF \E i \in DOMAIN list : list[i].Addr = addr
    THEN CHOOSE i \in DOMAIN list : list[i].Addr = addr
    ELSE 0

RemoveAt(list, i) == SubSeq(list, 1, i - 1) \o SubSeq(list, i + 1, Len(list))

\* notifyWatchers: one goroutine per watcher, holding a copy of the list.
notifyWatchers(w, list) ==
    [x \in Watchers |->
        IF w[x].on
        THEN [w[x] EXCEPT !.pend[list] = @ + 1, !.owed = @ + 1]
        ELSE w[x]]

\* Register(name, addr, metadata).
DiscRegister(addr, md) ==
    /\ nchg < MaxChanges
    /\ LET i == IndexOf(dsv, addr)
           list == IF i # 0 THEN [dsv EXCEPT ![i].Metadata = md]
                   ELSE Append(dsv, Instance(addr, md))
       IN  /\ dsv' = list
           /\ wch' = notifyWatchers(wch, list)
    /\ nchg' = nchg + 1
    /\ dret' = NilError

\* Unregister(name, addr).
DiscUnregister(addr) ==
    /\ nchg < MaxChanges
    /\ LET i == IndexOf(dsv, addr)
       IN  IF i = 0
           THEN /\ dret' = ErrServiceNotFound
                /\ UNCHANGED <<dsv, wch>>
           ELSE /\ dsv' = RemoveAt(dsv, i)
                /\ wch' = notifyWatchers(wch, RemoveAt(dsv, i))
                /\ dret' = NilError
    /\ nchg' = nchg + 1

\* Watch(name): a new channel; a goroutine sends the current list when the
\* service has instances.
DiscWatch(x) ==
    /\ ~wch[x].on
    /\ \A y \in Watchers : y < x => wch[y].on
    /\ wch' = [wch EXCEPT ![x].on = TRUE, ![x].owed = 1,
                          ![x].init = IF dsv # <<>> THEN <<dsv>> ELSE <<>>]
    /\ dret' = NilError
    /\ UNCHANGED <<dsv, nchg>>

\* The goroutine of Watch: ch <- result.
DeliverInitial(x) ==
    /\ wch[x].init # <<>>
    /\ Len(wch[x].ch) < WatchChanCap
    /\ wch' = [wch EXCEPT ![x].ch = Append(@, wch[x].init[1]),
                          ![x].init = <<>>]
    /\ UNCHANGED <<dsv, nchg, dret>>

\* A goroutine of notifyWatchers: case ch <- result.
Deliver(x, list) ==
    /\ wch[x].pend[list] > 0
    /\ Len(wch[x].ch) < WatchChanCap
    /\ wch' = [wch EXCEPT ![x].ch = Append(@, list),
                          ![x].pend[list] = @ - 1]
    /\ UNCHANGED <<dsv, nchg, dret>>

\* A goroutine of notifyWatchers: case <-time.After(time.Second), taken
\* after a second in which the channel had no room.
DeliverTimeout(x, list) ==
    /\ wch[x].pend[list] > 0
    /\ Len(wch[x].ch) = WatchChanCap
    /\ wch' = [wch EXCEPT ![x].pend[list] = @ - 1, ![x].dropped = @ + 1]
    /\ UNCHANGED <<dsv, nchg, dret>>

\* The watcher reads its channel.
WatcherRead(x) ==
    /\ wch[x].ch # <<>>
    /\ wch' = [wch EXCEPT ![x].ch = Tail(@), ![x].last = Head(wch[x].ch),
                          ![x].nrecv = @ + 1]
    /\ UNCHANGED <<dsv, nchg, dret>>

\* ================================================================ retry
DefaultMaxRetries == 3      \* Options.MaxRetries set by New
MaxRetriesOption == 3       \* largest value given to WithMaxRetries

\* WithMaxRetries takes any int.
RetryOptions == -1..MaxRetriesOption

\* RetryableErrors as New sets them.
RetryableErrors == {ErrorCodeTimeout, ErrorCodeDeadlineExceeded}

\* What next(ctx, req) returns to the retry handler.
InnerResults ==
    { NilError,
      New(ErrorCodeTimeout, <<"timeout">>),
      New(ErrorCodeDeadlineExceeded, <<"deadline exceeded">>),
      New(ErrorCodeNotFound, <<"service not found">>),
      Errorf(<<"boom">>) }

\* ctx.Err() once the context has fired.
ContextCanceled == Errorf(<<"context canceled">>)

\* pc: the handler's position; attempt: the loop variable; err: the local
\* err; fired: whether ctx.Done() is closed; ret: the returned error;
\* outs: what each invocation of next returned, in order; waitFired: the
\* select of an inter-attempt wait took the ctx.Done() case.
IdleRetry == [pc |-> "idle", max |-> DefaultMaxRetries, attempt |-> 0,
              err |-> NilError, fired |-> FALSE, ret |-> NilError,
              outs |-> <<>>, waitFired |-> FALSE]

\* The head of `for attempt := 0; attempt <= options.MaxRetries; attempt++`
\* with the loop variable already set in r: the wait of a later attempt,
\* the call of the first, or the return after the loop.
LoopHead(r) ==
    IF r.attempt <= r.max
    THEN [r EXCEPT !.pc = IF r.attempt > 0 THEN "wait" ELSE "call"]
    ELSE [r EXCEPT !.pc = "done", !.ret = r.err]

\* The handler built by New(WithMaxRetries(max)) is called.
RetryStart(max) ==
    /\ rty.pc = "idle"
    /\ rty' = LoopHead([rty EXCEPT !.max = max])
    /\ UNCHANGED bal

\* The caller's context is cancelled or reaches its deadline.
RetryCtxFire ==
    /\ rty.pc \in {"wait", "call"}
    /\ ~rty.fired
    /\ rty' = [rty EXCEPT !.fired = TRUE]
    /\ UNCHANGED bal

\* select { case <-ctx.Done(): return nil, ctx.Err()
\*          case <-time.After(options.RetryInterval): }
RetryWait ==
    /\ rty.pc = "wait"
    /\ rty' = IF rty.fired
              THEN [rty EXCEPT !.pc = "done", !.ret = ContextCanceled,
                               !.waitFired = TRUE]
              ELSE [rty EXCEPT !.pc = "call"]
    /\ UNCHANGED bal

\* resp, err = next(ctx, req) and the rest of the loop body.
RetryCall(res) ==
    /\ rty.pc = "call"
    /\ LET r == [rty EXCEPT !.err = res, !.outs = Append(@, res)]
           shouldRetry == Code(res) \in RetryableErrors
       IN  rty' = IF res = NilError
                  THEN [r EXCEPT !.pc = "done", !.ret = NilError]
                  ELSE IF ~shouldRetry \/ r.attempt = r.max
                  THEN [r EXCEPT !.pc = "done", !.ret = res]
                  ELSE LoopHead([r EXCEPT !.attempt = @ + 1])
    /\ UNCHANGED bal

\* ================================================================ balancer
MaxInstances == 2       \* length of the instance list given to Select
MaxSelects == 4         \* Select calls on one Balancer
MaxUpdates == 1         \* UpdateInstances calls on one Balancer
MaxSelectors == 2       \* goroutines calling Select

Selectors == 1..MaxSelectors

ErrNoAvailableService == New(ErrorCodeNotFound, <<"no available service">>)

\* pc: "idle", "locked" (b.mu.RLock() held, len(instances) tested) or
\* "added" (the counter value taken); n: len(instances) of the call; got:
\* the local next; ret: the position of the instance returned, 0 for nil;
\* ord: how many Selects took a counter value between the last
\* UpdateInstances and this one; called: a Select was made.
IdleSelector == [pc |-> "idle", n |-> 0, got |-> 0, ret |-> 0,
                 err |-> NilError, ord |-> 0, called |-> FALSE]

\* New(): next is 0.  list is the length of the instance list the callers
\* pass to Select; instances the length of b.instances; since and taken
\* record the Selects that took a counter value after the last
\* UpdateInstances and the values they took.
NewBalancer(list) ==
    [next |-> 0, instances |-> 0, list |-> list, since |-> 0, taken |-> <<>>,
     nsel |-> 0, nupd |-> 0, sel |-> [p \in Selectors |-> IdleSelector]]

\* atomic.AddUint64(&b.next, 1) returned without the - 1.
AddResultNew(next) == next + 1

\* atomic.AddUint64(&b.next, 1) - 1: the counter before the add.
AddResult(next) == next

\* Select: b.mu.RLock(); if len(instances) == 0 { return nil,
\* errors.ErrNoAvailableService } with the deferred RUnlock.
SelectEnter(p, n) ==
    /\ bal.sel[p].pc = "idle"
    /\ bal.nsel < MaxSelects
    /\ bal' = [bal EXCEPT
                 !.nsel = @ + 1,
                 !.sel[p] = IF n = 0
                            THEN [IdleSelector EXCEPT
                                    !.err = ErrNoAvailableService,
                                    !.called = TRUE]
                            ELSE [IdleSelector EXCEPT
                                    !.pc = "locked", !.n = n,
                                    !.called = TRUE]]
    /\ UNCHANGED rty

\* next := atomic.AddUint64(&b.next, 1) - 1
SelectAdd(p) ==
    /\ bal.sel[p].pc = "locked"
    /\ bal' = [bal EXCEPT !.next = @ + 1,
                          !.since = @ + 1,
                          !.taken = Append(@, AddResult(bal.next)),
                          !.sel[p].pc = "added",
                          !.sel[p].got = AddResult(bal.next),
                          !.sel[p].ord = bal.since]
    /\ UNCHANGED rty

\* index := next % uint64(len(instances)); return instances[index], nil
\* with the deferred RUnlock.
SelectReturn(p) ==
    /\ bal.sel[p].pc = "added"
    /\ bal' = [bal EXCEPT !.sel[p].pc = "idle",
                          !.sel[p].ret = (bal.sel[p].got % bal.sel[p].n) + 1]
    /\ UNCHANGED rty

\* UpdateInstances(instances) with len(instances) = m: b.mu.Lock() waits
\* until no Select holds the read lock.
UpdateInstances(m) ==
    /\ \A p \in Selectors : bal.sel[p].pc = "idle"
    /\ bal.nupd < MaxUpdates
    /\ bal' = [bal EXCEPT !.next = 0, !.instances = m, !.since = 0,
                          !.taken = <<>>, !.nupd = @ + 1]
    /\ UNCHANGED rty

\* ================================================================ specifications
\* No call is dispatched end to end; no pure function is being applied.
DispatchIdle ==
    /\ impl = "none"
    /\ cmw = <<>>
    /\ smw = <<>>
    /\ serviceMap = <<>>
    /\ regRet = NoReg
    /\ last = NoLast
    /\ down = FALSE

FnIdle ==
    /\ fin = NoIn
    /\ fout = NoOut

DiscIdle ==
    /\ dsv = <<>>
    /\ wch = [x \in Watchers |-> NoWatcher]
    /\ nchg = 0
    /\ dret = NilError

LibIdle ==
    /\ rty = IdleRetry
    /\ bal = <<>>

NetIdle ==
    /\ tpt = NewTransport("tcp")
    /\ snd = [p \in Senders |-> IdleSender]
    /\ lsn = IdleListener
    /\ cls = [q \in Closers |-> IdleCloser]
    /\ wire = [c \in ConnIds |-> NoConn]

Init ==
    /\ variant \in Variants
    /\ ClientFresh
    /\ DispatchIdle
    /\ FnIdle
    /\ NetIdle
    /\ DiscIdle
    /\ LibIdle

\* Nothing is dispatched end to end and no pure function is applied.
Elsewhere == UNCHANGED dispatchVars /\ UNCHANGED fnVars /\ UNCHANGED netVars /\ UNCHANGED discVars /\ UNCHANGED libVars

\* The client with Close at any time, over a transport whose Send fails
\* or returns any response waiting on the connection.  The requests
\* marshal, the replies decode and no context ends: SpecCalls has those
\* failures and SpecContext the contexts.
Next ==
        \/ \E md \in Mds : Go(md) /\ Elsewhere
        \/ \E i \in CallIds : send(i, FALSE) /\ Elsewhere
        \/ \E i \in CallIds : sendTransport(i, "none") /\ Elsewhere
        \/ \E i \in CallIds : SendConnect(i, FALSE) /\ Elsewhere
        \/ \E i \in CallIds : SendWrite(i, "ok") /\ Elsewhere
        \/ \E i \in CallIds : sendFailed(i) /\ Elsewhere
        \/ \E i \in CallIds, o \in NothingRead : sendReturn(i, o, NoResp) /\ Elsewhere
        \/ \E i \in CallIds : \E r \in Responses(tr.unread) : sendReturn(i, "ok", r) /\ Elsewhere
        \/ \E i \in CallIds : handleResponse(i, FALSE) /\ Elsewhere
        \/ \E i \in CallIds : finish(i) /\ Elsewhere
        \/ \E i \in CallIds : storeError(i) /\ Elsewhere
        \/ \E i \in CallIds : callDone(i) /\ Elsewhere
        \/ Close /\ Elsewhere
        \/ \E j \in CallIds : CloseStore(j) /\ Elsewhere
        \/ CloseDone /\ Elsewhere
        \/ CloseTransport /\ Elsewhere
        \/ CloseReturn /\ Elsewhere
        \/ \E i \in CallIds : setMetadata(i) /\ Elsewhere
        \/ \E i \in CallIds : await(i, FALSE) /\ Elsewhere
        \/ \E i \in CallIds : returnError(i) /\ Elsewhere
        \/ \E i \in CallIds : pkgHandler(i, FALSE, "none") /\ Elsewhere
        \/ \E i \in CallIds, o \in NothingRead : pkgComplete(i, o, NoResp, FALSE) /\ Elsewhere
        \/ \E i \in CallIds :
              \E r \in Responses(tr.unread) : pkgComplete(i, "ok", r, FALSE) /\ Elsewhere
        \/ Stop /\ Elsewhere

Spec == Init /\ [][Next]_vars

\* The client in a benign environment: every request is marshalled,
\* answered with a well-formed success envelope and decoded, and no context
\* fires.  Calls still fail through Close.
NextFaultFree ==
        \/ Go("md") /\ Elsewhere
        \/ \E i \in CallIds : send(i, FALSE) /\ Elsewhere
        \/ \E i \in CallIds : sendTransport(i, "none") /\ Elsewhere
        \/ \E i \in CallIds : SendConnect(i, FALSE) /\ Elsewhere
        \/ \E i \in CallIds : SendWrite(i, "ok") /\ Elsewhere
        \/ \E i \in CallIds : sendFailed(i) /\ Elsewhere
        \/ \E i \in CallIds : sendReturn(i, "ok", FrameHandler(calls[i].Seq, TRUE, "ok")) /\ Elsewhere
        \/ \E i \in CallIds : handleResponse(i, FALSE) /\ Elsewhere
        \/ \E i \in CallIds : finish(i) /\ Elsewhere
        \/ \E i \in CallIds : storeError(i) /\ Elsewhere
        \/ \E i \in CallIds : callDone(i) /\ Elsewhere
        \/ Close /\ Elsewhere
        \/ \E j \in CallIds : CloseStore(j) /\ Elsewhere
        \/ CloseDone /\ Elsewhere
        \/ CloseTransport /\ Elsewhere
        \/ CloseReturn /\ Elsewhere
        \/ \E i \in CallIds : setMetadata(i) /\ Elsewhere
        \/ \E i \in CallIds : await(i, FALSE) /\ Elsewhere
        \/ \E i \in CallIds : returnError(i) /\ Elsewhere
        \/ \E i \in CallIds : pkgHandler(i, FALSE, "none") /\ Elsewhere
        \/ \E i \in CallIds :
              pkgComplete(i, "ok", FrameHandler(calls[i].Seq, TRUE, "ok"), FALSE) /\ Elsewhere

InitClient == Init /\ variant \in {"thor", "pkg"}

\* The client used through Go with the caller's own done channel: requests
\* fail to marshal, fail on the transport or are answered, and Close runs
\* at any time.
NextGo ==
        \/ \E ch \in DoneChans : GoWith(ch) /\ Elsewhere
        \/ \E i \in CallIds : GoSignal(i) /\ Elsewhere
        \/ \E i \in CallIds : Park(i) /\ Elsewhere
        \/ \E i \in CallIds : Receive(i) /\ Elsewhere
        \/ \E i \in CallIds : returnError(i) /\ Elsewhere
        \/ \E i \in CallIds, f \in BOOLEAN : send(i, f) /\ Elsewhere
        \/ \E i \in CallIds : sendTransport(i, "none") /\ Elsewhere
        \/ \E i \in CallIds : SendConnect(i, FALSE) /\ Elsewhere
        \/ \E i \in CallIds : SendWrite(i, "ok") /\ Elsewhere
        \/ \E i \in CallIds : sendFailed(i) /\ Elsewhere
        \/ \E i \in CallIds : sendReturn(i, "io", NoResp) /\ Elsewhere
        \/ \E i \in CallIds : sendReturn(i, "ok", FrameHandler(calls[i].Seq, TRUE, "ok")) /\ Elsewhere
        \/ \E i \in CallIds : handleResponse(i, FALSE) /\ Elsewhere
        \/ \E i \in CallIds : finish(i) /\ Elsewhere
        \/ \E i \in CallIds : storeError(i) /\ Elsewhere
        \/ \E i \in CallIds : callDone(i) /\ Elsewhere
        \/ Close /\ Elsewhere
        \/ \E j \in CallIds : CloseStore(j) /\ Elsewhere
        \/ CloseDone /\ Elsewhere
        \/ CloseTransport /\ Elsewhere
        \/ CloseReturn /\ Elsewhere
        \/ \E i \in CallIds, f \in BOOLEAN : pkgHandler(i, f, "none") /\ Elsewhere
        \/ \E i \in CallIds : pkgComplete(i, "io", NoResp, FALSE) /\ Elsewhere
        \/ \E i \in CallIds :
              pkgComplete(i, "ok", FrameHandler(calls[i].Seq, TRUE, "ok"), FALSE) /\ Elsewhere

SpecGo == InitClient /\ [][NextGo]_vars

\* A step of call i's background goroutine (send, then handleResponse; in
\* pkg the goroutine that runs the handler), with any outcome of
\* marshalling, any bytes or error from transport.Send and any outcome of
\* decoding the reply.
TaskStep(i) ==
    \/ \E f \in BOOLEAN : send(i, f)
    \/ \E x \in SendFaults : sendTransport(i, x)
    \/ \E f \in BOOLEAN : SendConnect(i, f)
    \/ \E o \in WriteOutcomes : SendWrite(i, o)
    \/ sendFailed(i)
    \/ \E o \in NothingRead : sendReturn(i, o, NoResp)
    \/ \E o \in ReadOutcomes \ NothingRead :
          \E r \in Responses(tr.unread) : sendReturn(i, o, r)
    \/ \E f \in BOOLEAN : handleResponse(i, f)
    \/ finish(i)
    \/ storeError(i)
    \/ callDone(i)
    \/ \E f \in BOOLEAN, x \in SendFaults : pkgHandler(i, f, x)
    \/ \E g \in BOOLEAN, o \in NothingRead : pkgComplete(i, o, NoResp, g)
    \/ \E g \in BOOLEAN, o \in {"large", "ok"} :
          \E r \in Responses(tr.unread) : pkgComplete(i, o, r, g)

\* A step of the goroutine inside CallWithMetadata for call i.
CallerStep(i) == setMetadata(i) \/ await(i, FALSE) \/ returnError(i)

\* Calls on a client that nobody closes and whose contexts do not fire.
NextCalls ==
        \/ \E md \in Mds : Go(md) /\ Elsewhere
        \/ \E i \in CallIds : TaskStep(i) /\ Elsewhere
        \/ \E i \in CallIds : CallerStep(i) /\ Elsewhere

\* Every goroutine that can take a step eventually takes one; in
\* particular transport.Send returns.
SpecCalls ==
    /\ InitClient
    /\ [][NextCalls]_vars
    /\ \A i \in CallIds :
          /\ WF_vars(TaskStep(i) /\ Elsewhere)
          /\ WF_vars(CallerStep(i) /\ Elsewhere)

SpecFaultFree == InitClient /\ [][NextFaultFree]_vars

\* The benign environment with contexts that end at any time: before Go,
\* while the request is out, after the call.
NextContext ==
        \/ NextFaultFree
        \/ \E i \in CallIds : CtxFire(i) /\ Elsewhere
        \/ \E i \in CallIds : await(i, TRUE) /\ Elsewhere

SpecContext == InitClient /\ [][NextContext]_vars

\* The registries calls are dispatched against: nothing registered, or "A"
\* registered with one of the two valid services.
Registries ==
    {<<>>} \cup { (<<"A">> :> svc) : svc \in { x \in Services : x.id \in {1, 2} } }

\* Inputs of the frame handler that differ only in what is never looked at
\* are the same input: a stage that fails hides every later one (frame
\* decoding, route, server chain, method).
Relevant(sm, beh, sstop) ==
    LET r == parseServiceMethod(sm)
        routed == r.ok /\ Routed(serviceMap, r)
    IN  /\ beh = "undecodable" => sstop = 0
        /\ ~routed => (beh \in {"ok", "undecodable"} /\ sstop = 0)
        /\ sstop # 0 => beh = "ok"
        /\ beh = "badargs" => sstop = 0

\* Calls dispatched end to end.  Middlewares are registered while the
\* deployment is set up, before the first call.
InitDispatch ==
    /\ variant = "server"
    /\ ClientFresh
    /\ impl \in Impls
    /\ cmw = <<>>
    /\ smw = <<>>
    /\ serviceMap \in Registries
    /\ regRet = NoReg
    /\ last = NoLast
    /\ down = FALSE
    /\ FnIdle
    /\ tpt \in { NewTransport(k) : k \in {"tcp", "http"} }
    /\ impl = "simple" => tpt.kind = "tcp"
    /\ snd = [p \in Senders |-> IdleSender]
    /\ lsn = IdleListener
    /\ cls = [q \in Closers |-> IdleCloser]
    /\ wire = [c \in ConnIds |-> NoConn]
    /\ DiscIdle
    /\ LibIdle

NotDispatch ==
    /\ UNCHANGED clientVars /\ UNCHANGED srv /\ UNCHANGED fnVars
    /\ UNCHANGED netVars /\ UNCHANGED discVars /\ UNCHANGED libVars

NextDispatch ==
        \/ last.kind = "none" /\ UseClient /\ NotDispatch
        \/ last.kind = "none" /\ UseServer /\ NotDispatch
        \/ \E sm \in Routes, sq \in 0..(MaxCalls - 1),
              cstop \in 0..MaxMiddlewares :
              Call(sm, sq, cstop) /\ NotDispatch
        \/ \E beh \in Behaviours, sstop \in 0..MaxMiddlewares :
              /\ Relevant(last.route, beh, sstop)
              /\ HandleFrame(beh, sstop) /\ NotDispatch
        \/ \E sm \in Routes, sq \in 0..(MaxCalls - 1), beh \in Behaviours,
              sstop \in 0..MaxMiddlewares :
              /\ Relevant(sm, beh, sstop)
              /\ HandleForeign(sm, sq, beh, sstop) /\ NotDispatch
        \/ \E e \in NoAnswerErrors : CallReturns(e) /\ NotDispatch
        \/ \E sm \in Routes, cstop \in 0..MaxMiddlewares,
              f \in BOOLEAN, p \in BOOLEAN :
              /\ cstop # 0 => ~f
              /\ (cstop # 0 \/ f) => p
              /\ SimpleCall(sm, cstop, f, p) /\ NotDispatch

SpecDispatch == InitDispatch /\ [][NextDispatch]_vars

\* The registry of a server that is registered to and stopped.
InitRegistry ==
    /\ variant = "server"
    /\ ClientFresh
    /\ impl \in {"thor", "pkg"}
    /\ cmw = <<>>
    /\ smw = <<>>
    /\ serviceMap = <<>>
    /\ regRet = NoReg
    /\ last = NoLast
    /\ down = FALSE
    /\ FnIdle
    /\ NetIdle
    /\ DiscIdle
    /\ LibIdle

NextRegistry ==
        \/ \E svc \in Services, name \in RegisterNames :
              Register(svc, name)
              /\ UNCHANGED clientVars /\ UNCHANGED srv /\ UNCHANGED fnVars /\ UNCHANGED netVars /\ UNCHANGED discVars /\ UNCHANGED libVars
        \/ Stop /\ Elsewhere

SpecRegistry == InitRegistry /\ [][NextRegistry]_vars

\* Pure functions applied to inputs drawn from bounded sets.
InitFunctions ==
    /\ variant = "server"
    /\ ClientFresh
    /\ DispatchIdle
    /\ fin \in FnInputs
    /\ fout = NoOut
    /\ NetIdle
    /\ DiscIdle
    /\ LibIdle

NextFunctions ==
        \/ ParseRoute /\ UNCHANGED clientVars /\ UNCHANGED srv
           /\ UNCHANGED dispatchVars /\ UNCHANGED netVars /\ UNCHANGED discVars /\ UNCHANGED libVars
        \/ RoundTrip /\ UNCHANGED clientVars /\ UNCHANGED srv
           /\ UNCHANGED dispatchVars /\ UNCHANGED netVars /\ UNCHANGED discVars /\ UNCHANGED libVars
        \/ Decode /\ UNCHANGED clientVars /\ UNCHANGED srv
           /\ UNCHANGED dispatchVars /\ UNCHANGED netVars /\ UNCHANGED discVars /\ UNCHANGED libVars
        \/ FrameContext /\ UNCHANGED clientVars /\ UNCHANGED srv
           /\ UNCHANGED dispatchVars /\ UNCHANGED netVars /\ UNCHANGED discVars /\ UNCHANGED libVars
        \/ SendContext /\ UNCHANGED clientVars /\ UNCHANGED srv
           /\ UNCHANGED dispatchVars /\ UNCHANGED netVars /\ UNCHANGED discVars /\ UNCHANGED libVars
        \/ TimeoutHandler /\ UNCHANGED clientVars /\ UNCHANGED srv
           /\ UNCHANGED dispatchVars /\ UNCHANGED netVars /\ UNCHANGED discVars /\ UNCHANGED libVars
        \/ ErrorsApply /\ UNCHANGED clientVars /\ UNCHANGED srv
           /\ UNCHANGED dispatchVars /\ UNCHANGED netVars /\ UNCHANGED discVars /\ UNCHANGED libVars
        \/ DecodeInto /\ UNCHANGED clientVars /\ UNCHANGED srv
           /\ UNCHANGED dispatchVars /\ UNCHANGED netVars /\ UNCHANGED discVars /\ UNCHANGED libVars

SpecFunctions == InitFunctions /\ [][NextFunctions]_vars

\* Goroutines calling Send, Listen and Close on one transport, and the
\* server its connections lead to.
InitTransport ==
    /\ variant = "server"
    /\ ClientFresh
    /\ DispatchIdle
    /\ FnIdle
    /\ tpt \in { NewTransport(k) : k \in Kinds }
    /\ snd = [p \in Senders |-> IdleSender]
    /\ lsn = IdleListener
    /\ cls = [q \in Closers |-> IdleCloser]
    /\ wire = [c \in ConnIds |-> NoConn]
    /\ DiscIdle
    /\ LibIdle

NotNet ==
    /\ UNCHANGED clientVars /\ UNCHANGED srv /\ UNCHANGED dispatchVars
    /\ UNCHANGED fnVars /\ UNCHANGED discVars /\ UNCHANGED libVars

ListenStep ==
    \/ ListenStart(FALSE)
    \/ ListenBind("bound")
    \/ ListenBuffers(FALSE)
    \/ ListenAccept(FALSE)
    \/ UdpLoop
    \/ UdpReadDeadline
    \/ UdpRead("again")
    \/ HttpListen(FALSE)
    \/ HttpServeReturns

CloseStep(q) ==
    \/ CloseStart(q)
    \/ CloseSet(q)
    \/ CloseListener(q)
    \/ CloseConns(q)
    \/ HttpClose(q)

\* The Close calls made next to Sends come one after the other; Closes
\* that run concurrently are in SpecListen.
CloseInTurn(q) == \A r \in Closers : r < q => cls[r].pc = "done"

\* Send, Close and the peer.  Listen shares only t.closed and t.listener
\* with Close and nothing with Send: SpecListen has it.
NextTransport ==
        \/ \E p \in Senders, x \in StartFaults : SendStart(p, x) /\ NotNet
        \/ \E p \in Senders : Evict(p) /\ NotNet
        \/ \E p \in Senders : EvictClose(p) /\ NotNet
        \/ \E p \in Senders : SendLookup(p) /\ NotNet
        \/ \E p \in Senders, f \in BOOLEAN : SendDial(p, f) /\ NotNet
        \/ \E p \in Senders : SendStore(p) /\ NotNet
        \/ \E p \in Senders, f \in BOOLEAN : SendWriteDeadline(p, f) /\ NotNet
        \/ \E p \in Senders, f \in BOOLEAN : SendWriteHeader(p, f) /\ NotNet
        \/ \E p \in Senders, f \in BOOLEAN : SendWriteMessage(p, f) /\ NotNet
        \/ \E p \in Senders : SendReadDeadline(p) /\ NotNet
        \/ \E p \in Senders, f, g \in BOOLEAN : SendReadHeader(p, f, g) /\ NotNet
        \/ \E p \in Senders, f \in BOOLEAN : SendReadResponse(p, f) /\ NotNet
        \/ \E p \in Senders, o \in UdpOutcomes : UdpSendWrite(p, o) /\ NotNet
        \/ \E c \in ConnIds, o \in HeaderOutcomes : ServeReadHeader(c, o) /\ NotNet
        \/ \E c \in ConnIds, o \in MessageOutcomes : ServeReadMessage(c, o) /\ NotNet
        \/ \E c \in ConnIds, f \in BOOLEAN : ServeWriteHeader(c, f) /\ NotNet
        \/ \E c \in ConnIds, f \in BOOLEAN : ServeWriteResponse(c, f) /\ NotNet
        \/ \E q \in Closers : CloseInTurn(q) /\ CloseStart(q) /\ NotNet
        \/ \E q \in Closers : CloseSet(q) /\ NotNet
        \/ \E q \in Closers : CloseListener(q) /\ NotNet
        \/ \E q \in Closers : CloseConns(q) /\ NotNet
        \/ \E p \in Senders, o \in HttpOutcomes : HttpSend(p, o) /\ NotNet
        \/ \E p \in Senders, o \in DoOutcomes : HttpDo(p, o) /\ NotNet
        \/ \E p \in Senders, o \in BodyOutcomes : HttpReadBody(p, o) /\ NotNet
        \/ \E q \in Closers : CloseInTurn(q) /\ HttpClose(q) /\ NotNet

SpecTransport == InitTransport /\ [][NextTransport]_vars

\* Listen and Close alone, every goroutine that can take a step
\* eventually taking one.
NextListen ==
        \/ \E b \in BOOLEAN : ListenStart(b) /\ NotNet
        \/ \E o \in BindOutcomes : ListenBind(o) /\ NotNet
        \/ \E f \in BOOLEAN : ListenBuffers(f) /\ NotNet
        \/ \E f \in BOOLEAN : ListenAccept(f) /\ NotNet
        \/ UdpLoop /\ NotNet
        \/ UdpReadDeadline /\ NotNet
        \/ \E o \in UdpReadOutcomes : UdpRead(o) /\ NotNet
        \/ \E q \in Closers : CloseStart(q) /\ NotNet
        \/ \E q \in Closers : CloseSet(q) /\ NotNet
        \/ \E q \in Closers : CloseListener(q) /\ NotNet
        \/ \E q \in Closers : CloseConns(q) /\ NotNet
        \/ \E f \in BOOLEAN : HttpListen(f) /\ NotNet
        \/ HttpServeReturns /\ NotNet
        \/ \E q \in Closers : HttpClose(q) /\ NotNet

SpecListen ==
    /\ InitTransport
    /\ [][NextListen]_vars
    /\ WF_vars(ListenStep /\ NotNet)
    /\ \A q \in Closers : WF_vars(CloseStep(q) /\ NotNet)

\* Register, Unregister and Watch on one Discovery, the goroutines that
\* carry snapshots, and watchers that keep reading.
InitDiscovery ==
    /\ variant = "server"
    /\ ClientFresh
    /\ DispatchIdle
    /\ FnIdle
    /\ NetIdle
    /\ DiscIdle
    /\ LibIdle

NotDisc ==
    /\ UNCHANGED clientVars /\ UNCHANGED srv /\ UNCHANGED dispatchVars
    /\ UNCHANGED fnVars /\ UNCHANGED netVars /\ UNCHANGED libVars

NextDiscovery ==
        \/ \E a \in DiscAddrs, m \in InstanceMetadata :
              DiscRegister(a, m) /\ NotDisc
        \/ \E a \in DiscAddrs : DiscUnregister(a) /\ NotDisc
        \/ \E x \in Watchers : DiscWatch(x) /\ NotDisc
        \/ \E x \in Watchers : DeliverInitial(x) /\ NotDisc
        \/ \E x \in Watchers, l \in InstanceLists : Deliver(x, l) /\ NotDisc
        \/ \E x \in Watchers, l \in InstanceLists :
              DeliverTimeout(x, l) /\ NotDisc
        \/ \E x \in Watchers : WatcherRead(x) /\ NotDisc

\* A goroutine that can send does, and a watcher reads whatever is in its
\* channel.
SpecDiscovery ==
    /\ InitDiscovery
    /\ [][NextDiscovery]_vars
    /\ \A x \in Watchers :
          /\ WF_vars(DeliverInitial(x) /\ NotDisc)
          /\ WF_vars((\E l \in InstanceLists : Deliver(x, l)) /\ NotDisc)
          /\ WF_vars(WatcherRead(x) /\ NotDisc)

NotLib ==
    /\ UNCHANGED clientVars /\ UNCHANGED srv /\ UNCHANGED dispatchVars
    /\ UNCHANGED fnVars /\ UNCHANGED netVars /\ UNCHANGED discVars

\* One run of the retry middleware's handler around an inner handler that
\* succeeds or fails in any way, under a context that may fire.
InitRetry ==
    /\ variant = "server"
    /\ ClientFresh
    /\ DispatchIdle
    /\ FnIdle
    /\ NetIdle
    /\ DiscIdle
    /\ LibIdle

NextRetry ==
        \/ \E max \in RetryOptions : RetryStart(max) /\ NotLib
        \/ RetryCtxFire /\ NotLib
        \/ RetryWait /\ NotLib
        \/ \E res \in InnerResults : RetryCall(res) /\ NotLib

SpecRetry == InitRetry /\ [][NextRetry]_vars

\* Concurrent Select calls with an empty list or a fixed list of bal.list
\* instances, and UpdateInstances calls, on one Balancer.
InitBalancer ==
    /\ variant = "server"
    /\ ClientFresh
    /\ DispatchIdle
    /\ FnIdle
    /\ NetIdle
    /\ DiscIdle
    /\ rty = IdleRetry
    /\ bal \in { NewBalancer(n) : n \in 1..MaxInstances }

NextBalancer ==
        \/ \E p \in Selectors : SelectEnter(p, 0) /\ NotLib
        \/ \E p \in Selectors : SelectEnter(p, bal.list) /\ NotLib
        \/ \E p \in Selectors : SelectAdd(p) /\ NotLib
        \/ \E p \in Selectors : SelectReturn(p) /\ NotLib
        \/ \E m \in 0..MaxInstances : UpdateInstances(m) /\ NotLib

SpecBalancer == InitBalancer /\ [][NextBalancer]_vars

\* ================================================================ claims
Made == 1..ncalls
OpenBorn == { i \in Made : obs[i].born = "open" }
ClosedBorn == { i \in Made : obs[i].born = "closed" }
TaskOver(i) == task[i].pc \in {"exit", "none"}

\* C1: every pending call created by Go is signalled exactly once: never
\* twice, never by two different paths, and once its task is over it has
\* been signalled.
C1_CompletedExactlyOnce ==
    \A i \in Made :
        /\ obs[i].signals <= 1
        /\ Cardinality(obs[i].paths) <= 1
        /\ (TaskOver(i) => obs[i].signals = 1)

\* C2: a call is completed, failed or filled by a response only when that
\* response came back from the call's own Send and carries the call's seq.
C2_OwnResponseOnly ==
    \A j \in Made : \A h \in obs[j].hits : h[1] = j /\ h[2] = calls[j].Seq

\* C3: the seq values Go assigns are pairwise distinct, increase strictly
\* in allocation order and cover the contiguous range 0 .. seq-1.
C3_SeqDistinctIncreasingContiguous ==
    /\ \A i, j \in OpenBorn : i < j => calls[i].Seq < calls[j].Seq
    /\ { calls[i].Seq : i \in OpenBorn } = 0 .. (Cardinality(OpenBorn) - 1)
    /\ seq = Cardinality(OpenBorn)

C3_Witness == Cardinality(OpenBorn) >= 2 /\ \E i \in OpenBorn : TaskOver(i)

\* C4: once Close has returned, every call that was in the pending table
\* when it ran has been completed and ClientClosed is and stays the error
\* of its record; the transport is closed after the client is marked
\* closed, and is closed when Close returns.
C4_CloseCompletesPending ==
    /\ cl.n >= 1 =>
          \A i \in Made :
              obs[i].atClose => /\ obs[i].signals >= 1
                                /\ calls[i].Error = ErrClientClosed
    /\ (tr.closed => closed)
    /\ (cl.n >= 1 => tr.closed)

\* A step of Go on a closed client for call i, and the step in which that
\* Go returns the call.
GoClosedStep(i) ==
    /\ obs'[i].born = "closed"
    /\ caller[i].pc \in {"none", "signal"}
    /\ caller'[i] # caller[i]
GoClosedReturns(i) == GoClosedStep(i) /\ caller'[i].pc \notin {"none", "signal"}

\* C5: Go on a closed client, with any done channel, returns a call that
\* has a Done channel, has been signalled once on it (and is in it when the
\* channel is buffered) and whose error matches ClientClosed; no step of
\* that Go sends, advances seq, or changes the pending table, a task or
\* the transport.
C5_GoOnClosedClient ==
    [][ \A i \in CallIds :
          /\ GoClosedStep(i) =>
                /\ seq' = seq
                /\ pending' = pending
                /\ task' = task
                /\ tr' = tr
                /\ \A j \in CallIds : obs'[j].sends = obs[j].sends
          /\ GoClosedReturns(i) =>
                /\ Is(calls'[i].Error, ErrClientClosed)
                /\ ~calls'[i].Nil
                /\ obs'[i].signals = 1
                /\ (calls'[i].Cap > 0 => calls'[i].Done >= 1) ]_vars

\* C6: Close on a closed client returns ClientClosed, Stop on a stopped
\* server returns ServerClosed, and neither calls the transport's Close.
C6_SecondCloseAndStop ==
    /\ (cl.n >= 2 => cl.ret = ErrClientClosed /\ tr.closes = cl.trClosesBefore)
    /\ (srv.n >= 2 => srv.ret = ErrServerClosed /\ srv.trCloses = srv.trClosesBefore)

\* C7: no completed call is still in the pending table, and once Close
\* has returned the table is empty.
C7_CompletedNotPending ==
    /\ \A s \in DOMAIN pending : obs[pending[s]].signals = 0
    /\ (cl.n >= 1 => DOMAIN pending = {})

\* C8: when the context of a call fired while its request was awaiting the
\* response, a response that arrives afterwards finds the call completed
\* once with the context's error and out of the table, and does not write
\* its reply slot.
C8_ContextFiredFirst ==
    \A i \in Made :
        (obs[i].ctxEarly /\ task[i].resp.kind # "none") =>
            /\ calls[i].Error = ErrCtx
            /\ obs[i].signals = 1
            /\ calls[i].Seq \notin DOMAIN pending
            /\ obs[i].replyWrites = 0

\* C9: the reply slot of a call is written at most once and never after
\* the call has been signalled.
C9_ReplyWrittenOnceBeforeDone ==
    \A i \in Made : obs[i].replyWrites <= 1 /\ ~obs[i].lateWrite

\* C10: the request envelope handed to transport.Send carries the metadata
\* map given to CallWithMetadata.
C10_EnvelopeCarriesMetadata ==
    \A i \in Made : obs[i].sends > 0 => task[i].reqMeta = args[i].md

\* ---------------------------------------------------------------- dispatch claims
IsEnter(e) == e.ev = "enter"
IsExit(e) == e.ev = "exit"
IsHandler(e) == e.ev = "handler"
Entered(t) ==
    LET en == SelectSeq(t, IsEnter) IN [i \in 1..Len(en) |-> en[i].m]
Exited(t) ==
    LET ex == SelectSeq(t, IsExit) IN [i \in 1..Len(ex) |-> ex[i].m]
HandlerRan(t) == Len(SelectSeq(t, IsHandler)) > 0
Reverse(q) == [i \in 1..Len(q) |-> q[Len(q) + 1 - i]]
\* A call or a frame whose handling on the server, or whose end on the
\* client, has been seen.
Observed == last.kind \in {"served", "call", "frame"}

\* The run t of a chain over the registered middlewares reg: the entries are
\* M1, M2, ... in registration order, all of them before the innermost
\* handler, which runs only after every middleware was entered, and the
\* exits follow in the reverse order.
InOrder(t, reg) ==
    LET en == Entered(t)
        n == Len(en)
    IN  /\ n <= Len(reg)
        /\ en = SubSeq(reg, 1, n)
        /\ Exited(t) = Reverse(en)
        /\ \A i \in 1..n : t[i].ev = "enter"
        /\ HandlerRan(t) => (n = Len(reg) /\ t[n + 1].ev = "handler")
        /\ Len(t) = 2 * n + (IF HandlerRan(t) THEN 1 ELSE 0)

\* C11: with middlewares registered in the order M1, M2, M3, a call enters
\* them in that order, then the innermost handler, and leaves them in the
\* reverse order; in the server chain (pkg DefaultServer) and the client
\* chains (pkg DefaultClient.Go, Client.Call) alike.
C11_ChainOrder ==
    Observed =>
        /\ (impl \in {"pkg", "simple"} /\ last.ctrace # <<>>)
              => InOrder(last.ctrace, cmw)
        /\ (impl = "pkg" /\ last.strace # <<>>) => InOrder(last.strace, smw)

C11_Witness ==
    /\ Observed
    /\ impl = "pkg"
    /\ Len(cmw) = MaxMiddlewares
    /\ Len(smw) = MaxMiddlewares
    /\ last.invoked
    /\ Len(last.ctrace) = 2 * MaxMiddlewares + 1
    /\ Len(last.strace) = 2 * MaxMiddlewares + 1

\* C12: every middleware registered with Use is entered once on every
\* call: on the server before the method is invoked, on the client before
\* transport.Send is invoked.
C12_EveryMiddlewareRuns ==
    Observed =>
        /\ last.invoked => Entered(last.strace) = smw
        /\ last.sent => Entered(last.ctrace) = cmw

\* The request was decodable and its handling failed in the method, in a
\* middleware or in a dispatch step (route, argument decoding).
HandlingFailed ==
    /\ Observed
    /\ impl \in {"thor", "pkg"}
    /\ last.handled
    /\ last.beh # "undecodable"
    /\ \/ ~last.routed
       \/ last.beh \in {"badargs", "error", "emptyError"}
       \/ (last.strace # <<>> /\ ~HandlerRan(last.strace))

\* C13: for a decodable request, a failure of the method, of a middleware
\* or of a dispatch step is returned by the frame handler as a response
\* with a non-empty error field and a nil handler error.
C13_FailureInEnvelope ==
    HandlingFailed =>
        /\ last.resp.produced
        /\ last.resp.Error # <<>>
        /\ ~last.herr

\* C14: a request whose method panics is answered with a response carrying
\* an error of code unknown, and the server keeps serving.
C14_PanicAnswered ==
    (Observed /\ last.panicked) =>
        /\ last.resp.produced
        /\ last.resp.Error # <<>>
        /\ Code(last.err) = ErrorCodeUnknown
        /\ ~down

\* C15: every response the server produces for a decodable request carries
\* the seq and the service_method of that request, on the success path and
\* on every error path.
C15_EchoesSeqAndRoute ==
    (Observed /\ last.handled /\ last.beh # "undecodable"
       /\ last.resp.produced)
        => /\ last.resp.Seq = last.Seq
           /\ last.resp.ServiceMethod = last.route

C15_Witness ==
    /\ Observed
    /\ impl = "thor"
    /\ last.Seq # 0
    /\ last.beh = "error"
    /\ last.resp.produced
    /\ last.resp.Error # <<>>
    /\ last.resp.Seq = last.Seq

\* C16: every response the server produces has either an empty error and
\* the encoded reply as payload, or a non-empty error and an empty payload
\* and reply.
C16_ErrorOrPayload ==
    (Observed /\ last.resp.produced) =>
        \/ /\ last.resp.Error = <<>>
           /\ last.resp.Payload = EncodedReply
        \/ /\ last.resp.Error # <<>>
           /\ last.resp.Payload = <<>>
           /\ last.resp.Reply = <<>>

\* C17: a call to a service or a method the server has not registered
\* returns to the caller an error whose Code is not_found.
C17_UnknownRouteNotFound ==
    (/\ Observed
     /\ impl \in {"thor", "pkg"}
     /\ last.handled
     /\ last.returned
     /\ last.beh = "ok"
     /\ parseServiceMethod(last.route).ok
     /\ ~last.routed)
        => Code(last.err) = ErrorCodeNotFound

\* C19: a registration under a name already registered is rejected with an
\* error of code already_exists and leaves the registry as it was; of the
\* registrations of one name exactly one succeeds.
C19_DuplicateRejected ==
    /\ (/\ regRet.done
        /\ regRet.open
        /\ regRet.valid
        /\ regRet.name \in DOMAIN regRet.before)
          => /\ Code(regRet.ret) = ErrorCodeAlreadyExists
             /\ serviceMap = regRet.before
    /\ regRet.wins <= 1

\* ---------------------------------------------------------------- function claims
\* The part of a route before its first separator and the part after it
\* are both non-empty.
WellFormedRoute(route) ==
    LET d == FirstDot(route, 1) IN d > 1 /\ d < Len(route)

\* C18: parseServiceMethod returns a (service, method) pair exactly for the
\* strings whose part before the separator and part after it are both
\* non-empty, and an error for every other string ("A", ".", ".B", "A.").
C18_ParseServiceMethod ==
    (fout.done /\ fin.fn = "parse") =>
        /\ fout.ok <=> WellFormedRoute(fin.route)
        /\ fout.ok =>
              /\ fout.service = SubSeq(fin.route, 1, FirstDot(fin.route, 1) - 1)
              /\ fout.method = SubSeq(fin.route, FirstDot(fin.route, 1) + 1,
                                      Len(fin.route))

\* An envelope the frame layout can carry: its service method fits the
\* one-byte length and its error text the two-byte length.
ValidEnvelope(v) ==
    /\ Size(v.ServiceMethod) <= MaxServiceMethodLen
    /\ Size(v.Error) < ErrorLenModulus

\* C20: for every valid request or response envelope v, Unmarshal(Marshal(v))
\* succeeds and yields an envelope equal to v in every field: service
\* method, seq, metadata, error, payload and args (or reply).
C20_BinaryRoundTrip ==
    (fout.done /\ fin.fn = "codec" /\ ValidEnvelope(fin.env)) =>
        (fout.ok /\ fout.env = fin.env)

\* ---------------------------------------------------------------- decoder claims
\* The bytes of a frame at positions i..j, fewer when the frame is shorter.
BytesAt(data, i, j) == Explode(Take(Drop(data, i - 1), j - i + 1))

Decoded == fout.done /\ fin.fn = "decode"

\* The frame has the thirteen header bytes, the magic and the version.
GoodHeader(data) ==
    /\ Size(data) >= MinFrameLen
    /\ BytesAt(data, 1, 2) = BigEndian(MagicNumber, 2)
    /\ BytesAt(data, 3, 3) = <<Version>>

\* C21: Unmarshal returns an error for every byte string that is shorter
\* than the 13-byte header, whose first two bytes are not the magic, or
\* whose version byte is not 1.
C21_BadHeaderRejected ==
    (Decoded /\ ~GoodHeader(fin.data)) => ~fout.ok

\* A full-length frame with a wrong magic, and one with a wrong version,
\* were both decoded.
C21_Witness ==
    /\ Decoded
    /\ ~fin.cut
    /\ ~fout.ok
    /\ \/ BytesAt(fin.data, 1, 2) # BigEndian(MagicNumber, 2)
       \/ BytesAt(fin.data, 3, 3) # <<Version>>

\* C22: Unmarshal rejects every frame whose message type is outside
\* {1, 2} and every frame whose service method length is 0.
C22_TypeAndMethodLenRejected ==
    (Decoded /\ GoodHeader(fin.data)
       /\ \/ BytesAt(fin.data, 4, 4)[1] \notin {TypeRequest, TypeResponse}
          \/ BytesAt(fin.data, 14, 14) = <<0>>)
    => ~fout.ok

\* C23: a frame that declares a metadata, error or payload length greater
\* than the configured maximum is rejected, and no buffer of more than the
\* maximum was made for it.
C23_DeclaredLengthBounded ==
    (Decoded /\ ~fin.cut /\ fin.decl > MaxMessageSize) =>
        (~fout.ok /\ fout.alloc <= MaxMessageSize)

\* ---------------------------------------------------------------- transport claims
\* C24: a Close that starts after a Close has returned returns no error
\* and changes no state, and every Send or Listen that starts after a
\* Close has returned yields ServerClosed without dialing, binding or
\* writing to the network.
C24_CloseIdempotentAndFinal ==
    /\ \A q \in Closers :
          (cls[q].pc = "done" /\ cls[q].after) =>
              (cls[q].ret = NilError /\ ~cls[q].changed)
    /\ \A p \in Senders :
          (snd[p].pc # "idle" /\ snd[p].after) =>
              /\ snd[p].pc = "done"
              /\ snd[p].ret = ServerClosedError
              /\ ~snd[p].net
    /\ (lsn.pc # "idle" /\ lsn.after) =>
          /\ lsn.pc = "done"
          /\ lsn.ret = ServerClosedError
          /\ ~lsn.net

\* C25 (first half): a Listen on the tcp or udp transport that has
\* returned, its address and the network not having failed it, did so on
\* a closed transport.
ListenBlocksUntilClosed ==
    (tpt.kind \in {"tcp", "udp"} /\ lsn.pc = "done" /\ ~lsn.fault)
        => tpt.closed

\* C25: on the tcp and udp transports, once a Close has returned, a
\* Listen that is running or starts eventually returns ServerClosed,
\* unless its address or the network fails it before.
C25_ListenReturnsAfterClose ==
    [](ListenBlocksUntilClosed)
    /\ ((tpt.kind \in {"tcp", "udp"} /\ CloseReturned /\ lsn.pc # "idle"
             /\ ~lsn.fault)
          ~> (lsn.pc = "done" /\ (lsn.ret = ServerClosedError \/ lsn.fault)))

\* C26: when a tcp Send has returned an error after it began writing to or
\* reading from a connection, that connection is closed and is not the
\* cached one.
C26_FailedSendEvicts ==
    \A p \in Senders :
        (tpt.kind = "tcp" /\ snd[p].pc = "done" /\ snd[p].began
           /\ snd[p].ret # NilError)
        => (wire[snd[p].conn].state = "closed" /\ tpt.cached # snd[p].conn)

\* C27: a tcp Send that returns a response returns the one the server
\* produced for the request that same Send wrote.
C27_OwnResponse ==
    \A p \in Senders :
        (tpt.kind = "tcp" /\ snd[p].pc = "done" /\ snd[p].ret = NilError)
        => snd[p].got = p

\* ---------------------------------------------------------------- discovery claims
\* C28: a watcher that keeps reading ends up having received every
\* snapshot it is due: the current list on subscription and one full list
\* after each later Register or Unregister that changed the service.
C28_EverySnapshotDelivered ==
    \A x \in Watchers : <>[](wch[x].on => wch[x].nrecv = wch[x].owed)

\* C29: for every request the frame handler passes on, the call context
\* binds "service_method" to the request's route and binds "metadata" to the
\* request's metadata mapping, also when the request carries no metadata.
C29_ContextHoldsBothKeys ==
    (fin.fn = "context" /\ fout.done) =>
        /\ "service_method" \in DOMAIN fout.ctx
        /\ fout.ctx["service_method"] = fin.route
        /\ "metadata" \in DOMAIN fout.ctx
        /\ Entries(fout.ctx["metadata"][1]) = Entries(fin.md)

\* C30: signalling a call's completion never makes the completing task
\* wait: whatever the done channel's capacity and filling, a task that has
\* reached a send on it can perform the send at once.
C30_SignalNeverBlocks ==
    \A i \in CallIds :
        caller[i].pc = "signal" => calls[i].Done < Room(calls[i])

\* C31: the context the client passes to transport.Send is the caller's own
\* context when that context has a deadline, and otherwise a context whose
\* deadline is the default timeout after the send; a caller's deadline is
\* never replaced or extended.
C31_SendContextDeadline ==
    (fin.fn = "sendctx" /\ fout.done) =>
        IF fin.cctx.has
        THEN fout.sctx = fin.cctx
        ELSE /\ fout.sctx.has
             /\ fout.sctx.at = fin.now + DefaultTimeout

\* ---------------------------------------------------------------- middleware claims
\* C32: a run of the retry middleware invokes the inner handler at least
\* once and at most MaxRetries+1 times; every invocation but the last
\* returned a retryable error; and when the inter-attempt wait ends by the
\* context firing the run returns the context's error.
C32_RetryBounded ==
    /\ Len(rty.outs) <= rty.max + 1
    /\ \A k \in 1..(Len(rty.outs) - 1) :
          rty.outs[k] # NilError /\ Code(rty.outs[k]) \in RetryableErrors
    /\ rty.pc = "done" =>
          /\ Len(rty.outs) >= 1
          /\ rty.waitFired => rty.ret = ContextCanceled

\* C33: when the inner handler returns an error, the error the timeout
\* middleware returns has that error in its cause chain, whether or not the
\* timeout has elapsed.
C33_TimeoutKeepsCause ==
    (fin.fn = "timeout" /\ fout.done /\ fin.err # NilChain) =>
        /\ fout.err # NilChain
        /\ fout.is

\* The pointers along err's cause chain.
Links(err) == { SubSeq(err, k, Len(err)) : k \in 1..Len(err) }

\* C34: Is(err, s) holds exactly when s is a link of err's cause chain;
\* Code(err) is the code of the outermost error-model link, unknown when
\* there is none; Wrap of a nil cause is nil and of any other cause is a
\* new link over it.
C34_ChainMatching ==
    (fin.fn = "errors" /\ fout.done) =>
        /\ fout.is <=> (fin.target \in Links(fin.err))
        /\ LET model == { l \in Links(fin.err) : Head(l).type = "Error" }
           IN  IF model = {} THEN fout.code = ErrorCodeUnknown
               ELSE \E l \in model :
                      /\ \A o \in model : Len(o) <= Len(l)
                      /\ fout.code = Head(l).Code
        /\ (fin.err = NilChain) <=> (fout.err = NilChain)
        /\ fin.err # NilChain => Unwrap(fout.err) = fin.err

C34_Witness ==
    /\ fin.fn = "errors"
    /\ fout.done
    /\ Len(fin.err) = MaxWrapDepth + 1
    /\ fin.target = Unwrap(fin.err)
    /\ fout.is
    /\ Head(fin.err).Code # Head(Unwrap(fin.err)).Code
    /\ fout.code = Head(fin.err).Code

\* A Select by p has returned.
Selected(p) == bal.sel[p].pc = "idle" /\ bal.sel[p].called

\* C35: Select on an empty list returns the no-available-service error and
\* leaves the counter alone; on the fixed list of n instances the k-th
\* Select after an UpdateInstances (or after New) returns instances[k mod
\* n]; and the Selects since the last UpdateInstances took distinct counter
\* values.
SelectResults ==
    /\ \A p \in Selectors :
          Selected(p) =>
            IF bal.sel[p].n = 0
            THEN /\ bal.sel[p].err = ErrNoAvailableService
                 /\ bal.sel[p].ret = 0
            ELSE /\ bal.sel[p].err = NilError
                 /\ bal.sel[p].ret = (bal.sel[p].ord % bal.list) + 1
    /\ \A i, j \in 1..Len(bal.taken) : i # j => bal.taken[i] # bal.taken[j]

C35_RoundRobin ==
    /\ []SelectResults
    /\ [][\A p \in Selectors :
            (bal.nsel' # bal.nsel /\ bal.sel[p]' # bal.sel[p]
             /\ bal.sel[p].n' = 0) => bal.next' = bal.next]_vars

C35_Witness ==
    /\ bal.nupd > 0
    /\ bal.list > 1
    /\ \E p, q \in Selectors :
          /\ p # q
          /\ Selected(p) /\ Selected(q)
          /\ bal.sel[p].ord = bal.list  /\ bal.sel[p].ret = 1
          /\ bal.sel[q].ord = bal.list - 1 /\ bal.sel[q].ret = bal.list

\* ---------------------------------------------------------------- connection cache
\* A Send holds connection c between its dial and its store.
BeingStored(c) == \E p \in Senders : snd[p].pc = "store" /\ snd[p].conn = c

\* C36: on the stream transport, as long as no Send has failed, every
\* connection that was dialed and is not closed is the one stored in the
\* cache (or is on its way into it), so at most one connection to the
\* target is open, for sequential and for concurrent Sends, also after
\* Close.
C36_OneCachedConnection ==
    (tpt.kind = "tcp" /\ \A p \in Senders : snd[p].ret = NilError) =>
        \A c \in ConnIds :
            wire[c].state = "open" => (tpt.cached = c \/ BeingStored(c))

\* ---------------------------------------------------------------- completion
\* C37: provided transport.Send returns, every call made through
\* CallWithMetadata is eventually completed and CallWithMetadata returns,
\* whatever bytes the transport delivered.
C37_CallReturns ==
    \A i \in CallIds :
        (caller[i].pc \in {"meta", "wait"}) ~> (caller[i].pc = "returned")

\* ---------------------------------------------------------------- codec claims
UnmarshalDone == fout.done /\ fin.fn = "unmarshal"

\* C38: when Unmarshal returns an error, whatever the reason, the
\* destination Request or Response holds in every field what it held before
\* the call.
C38_FailedUnmarshalKeepsDestination ==
    (UnmarshalDone /\ ~fout.ok) => fout.dst = fin.dst

\* A destination holding an earlier message has been handed a frame of
\* its own type with another service method: every statement before the
\* switch succeeds, a read after it fails, and the destination holds the
\* earlier message still.
C38_Witness ==
    /\ UnmarshalDone /\ ~fout.ok
    /\ fin.dst = UsedEnv(fin.want)
    /\ LET common == Execute(CommonPart, UnmarshalStart(fin.data, fin.dst))
       IN  /\ common.ret = "run"
           /\ common.msgType = (IF fin.want = "request" THEN TypeRequest
                                ELSE TypeResponse)
           /\ common.serviceMethod # fin.dst.ServiceMethod
    /\ fout.dst = UsedEnv(fin.want)

\* The length fields of a frame Marshal made of v, read at the offsets the
\* layout gives them, against the bytes written for their fields.
LengthFieldsMatch(v, data) ==
    LET methodLen == Size(v.ServiceMethod)
        metadataLen == Size(JSONMetadata(v.Metadata))
        errorAt == MinFrameLen + 1 + methodLen + 4 + metadataLen
        errorLen == IF v.type = "response" THEN Size(v.Error) ELSE 0
        payloadAt == IF v.type = "response" THEN errorAt + 2 + errorLen
                     ELSE errorAt
        payloadLen == IF Size(v.Payload) > 0 THEN Size(v.Payload)
                      ELSE Size(v.Other)
    IN  /\ BytesAt(data, MinFrameLen + 1, MinFrameLen + 1) = <<methodLen>>
        /\ FromBigEndian(BytesAt(data, MinFrameLen + 2 + methodLen,
                                       MinFrameLen + 5 + methodLen), 0)
              = metadataLen
        /\ v.type = "response" =>
              FromBigEndian(BytesAt(data, errorAt + 1, errorAt + 2), 0)
                = errorLen
        /\ FromBigEndian(BytesAt(data, payloadAt + 1, payloadAt + 4), 0)
              = payloadLen
        /\ Size(data) = payloadAt + 4 + payloadLen

\* C39: whenever Marshal returns no error, every length field of the frame
\* equals the number of bytes written for its field, the 2-byte error_len
\* included whatever the length of the error string, and the frame decodes
\* back with Unmarshal.
C39_LengthFieldsExact ==
    (fout.done /\ fin.fn = "codec" /\ Marshal(fin.env).ok) =>
        /\ LengthFieldsMatch(fin.env, Marshal(fin.env).data)
        /\ fout.ok

\* ---------------------------------------------------------------- watcher order
\* Every snapshot due to watcher x has been sent and read, and none was
\* given up.
AllRead(x) ==
    /\ wch[x].on
    /\ wch[x].init = <<>>
    /\ \A l \in InstanceLists : wch[x].pend[l] = 0
    /\ wch[x].ch = <<>>
    /\ wch[x].dropped = 0
    /\ wch[x].nrecv > 0

\* C40: snapshots reach a watcher in the order of the changes that made
\* them, so once a reading watcher has read every snapshot sent to it after
\* a sequence of Register and Unregister calls, the last one it read is the
\* service's final instance list.
C40_LastSnapshotIsFinal ==
    \A x \in Watchers : AllRead(x) => wch[x].last = dsv

====
